---- MODULE Spec2Model ----
(***************************************************************************)
(* Model of the OrderBook matching engine of src/src/VWAPCalculator.cpp    *)
(* (class OrderBook, lines 123-304).  Prices are doubles in the source and *)
(* small integers here; the two ladders are maps from price to a FIFO      *)
(* queue of orders, the order index is a map from order id to (side,       *)
(* price).  Every public call is one atomic action (the engine is single   *)
(* threaded); the trades printed by matchOrders during the call are kept   *)
(* in the log variable trades, and the outcome of the call in last: what   *)
(* the call printed and returned (a rejected addOrder prints only          *)
(* "Quantity must be positive.", so its record carries no argument).       *)
(*                                                                         *)
(* The second part models ThreadSafeQueue<T>, which the repository has     *)
(* twice: declared in src/include/ThreadSafeQueue.hpp with the member      *)
(* functions in src/unnamed/part_001 ("header"), and as an inline class in *)
(* src/src/ThreadSafeQueue.cpp ("inline"); they differ in pop and tryPop.  *)
(* Every member function holds mutex_ from entry to exit, so a call is one *)
(* atomic step, except that a wait on a condition variable releases the    *)
(* mutex: a blocked thread sits in a waiting state until it is notified    *)
(* (or wakes spuriously) and then re-checks its predicate in a step of its *)
(* own.                                                                    *)
(*                                                                         *)
(* The further parts model LRUCache (src/src/LRUCache.cpp: the nodes of    *)
(* the doubly linked list by address, with head_, tail_ and map_),         *)
(* VWAPCalculator (src/src/VWAPCalculator.cpp, lines 12-69, with integer   *)
(* prices so that the sums of doubles are exact) and processTick of        *)
(* MarketDataProcessor (src/src/MarketDataProcessor.cpp).  Each object has *)
(* its own variables and its own specification; the objects of the other   *)
(* parts stay as constructed.                                              *)
(*                                                                         *)
(* SpecMatch runs addOrder with the two loops of matchOrders one loop test *)
(* at a time (the call in progress is kept in mcall); SpecRunning is the   *)
(* queue while nobody calls shutdown.  The last part models TickProcessor  *)
(* (src/unnamed/part_000): the callers' start, stop and addTick run one    *)
(* access to running_, processorThread_ or tickQueue_ at a time, and each  *)
(* processor thread one loop test or loop body at a time.                  *)
(***************************************************************************)
EXTENDS Integers, Sequences, FiniteSets, TLC

(* ---- bounds of the model ---- *)
\* addOrder is enabled while currentTimestamp < MaxTimestamp
MaxTimestamp == 3

\* the number of threads that call the queue, and the capacity it is built with
NumThreads == 3
MaxSize == 2

\* the arguments the calls are made with
Prices == {1, 2, 3}
Quantities == {-1, 0, 1, 2}
OrderIDs == {1, 2}
\* the quantities of the runs in which one order takes several levels
SweepQuantities == {1, 2, 3}
Threads == 1..NumThreads
Items == {1, 2}

\* the delivery runs of the queue make at most MaxItems push and tryPush calls
MaxItems == 3

\* LRUCache: the largest capacity a cache is built with, its keys and values
MaxCapacity == 2
Keys == 1..(MaxCapacity + 1)
Values == {1, 2}

\* VWAPCalculator: the largest window, the number of addTick calls of a run
\* between two clear calls, and the arguments of addTick
MaxWindow == 2
MaxArrived == 3
TickPrices == {1, 2}
Volumes == {-1, 0, 1, 2}

\* MarketDataProcessor: the number of processTick calls of a run and the
\* fields of the ticks
MaxTicks == 4
Symbols == {"AAPL", "GOOGL"}

\* TickProcessor: the threads that call it, the number of start() calls that
\* create a thread and the number of addTick calls of a run
Callers == {1, 2}
MaxStarts == 2
Workers == 1..MaxStarts
MaxAdded == 2
Timestamps == {0, 50000, 70000, 120000}

(* ---- program constants ---- *)
DBL_MAX == 1000000
nullptr == 0
TIME_WINDOW_MS == 60000
BUY == "BUY"
SELL == "SELL"
Sides == {BUY, SELL}

VARIABLES bids, asks, orderLocation, bestBid, bestAsk, currentTimestamp,
          trades, last

\* ThreadSafeQueue: the implementation in use, the data members queue_ and
\* shutdown_, where each thread is in its call (pc), the item a blocked push
\* carries (held) and the outcome of the call that finished last (qlast)
VARIABLES impl, queue_, shutdown_, pc, held, qlast

qvars == <<impl, queue_, shutdown_, pc, held, qlast>>

\* the items the producers' calls reported as pushed and the items the
\* consumers' calls returned, in the order the calls finished
VARIABLES produced, consumed

dvars == <<produced, consumed>>

\* LRUCache: the nodes on the heap (by address), the data members head_,
\* tail_, map_ and capacity_, the keys in the order of their last access
\* (most recent first) and the outcome of the last call
VARIABLES nodes, head_, tail_, map_, capacity_, accessed, clast

cvars == <<nodes, head_, tail_, map_, capacity_, accessed, clast>>

\* VWAPCalculator: the data members, the ticks accepted since construction or
\* the last clear, and the outcome of the last call
VARIABLES ticks, windowSize, totalPriceVolume, totalVolume, arrived, wlast

wvars == <<ticks, windowSize, totalPriceVolume, totalVolume, arrived, wlast>>

\* MarketDataProcessor: the data member symbolMap, the number of processTick
\* calls made and the tick of the last one
VARIABLES symbolMap, processed, mlast

mvars == <<symbolMap, processed, mlast>>

\* matchOrders run loop test by loop test: where the addOrder call in progress
\* is and its arguments, quantity being the int& that matchOrders decrements
VARIABLES mcall

svars == <<mcall>>

\* TickProcessor: the data members tickQueue_ (its queue_), vwapData_,
\* processorThread_ (the thread it owns, if joinable), running_ and
\* ticksProcessed_; where every processor thread and every calling thread is;
\* the ticks pushed so far, the number of joins of each processor thread,
\* whether std::terminate was called, and the outcome of the last call
VARIABLES tickQueue_, vwapData_, processorThread_, running_, ticksProcessed_,
          workerPc, callerPc, pushedTicks, joinCount, terminated, tlast

tvars == <<tickQueue_, vwapData_, processorThread_, running_, ticksProcessed_,
           workerPc, callerPc, pushedTicks, joinCount, terminated, tlast>>

book == <<bids, asks, orderLocation, bestBid, bestAsk, currentTimestamp>>
vars == <<bids, asks, orderLocation, bestBid, bestAsk, currentTimestamp,
          trades, last>>

(* ---- helpers for std::map and std::deque ---- *)
Min(a, b) == IF a <= b THEN a ELSE b

Order(id, p, q, ts) == [orderID |-> id, price |-> p, quantity |-> q, timestamp |-> ts]

MapErase(m, k) == [x \in DOMAIN m \ {k} |-> m[x]]

MapPut(m, k, v) == [x \in DOMAIN m \cup {k} |-> IF x = k THEN v ELSE m[x]]

\* std::map::operator[]: inserts a default (empty) value when the key is absent
MapIndex(m, k) == IF k \in DOMAIN m THEN m ELSE MapPut(m, k, <<>>)

\* bids is ordered by std::greater<double>: begin() is the highest key
BidsBeginAlt(b) == CHOOSE p \in DOMAIN b : \A q \in DOMAIN b : p <= q
BidsBegin(b) == CHOOSE p \in DOMAIN b : \A q \in DOMAIN b : p >= q

\* asks is ordered by std::less<double>: begin() is the lowest key
AsksBeginAlt(a) == CHOOSE p \in DOMAIN a : \A q \in DOMAIN a : p >= q
AsksBegin(a) == CHOOSE p \in DOMAIN a : \A q \in DOMAIN a : p <= q

PopFront(q) == SubSeq(q, 2, Len(q))

\* std::remove_if + erase: drops every order carrying the id, keeps the rest in order
RemoveIf(q, id) == SelectSeq(q, LAMBDA o : o.orderID # id)

(* ---- OrderBook::updateBestPrices ---- *)
bestBidOfAlt(b) == IF DOMAIN b = {} THEN 0 ELSE BidsBeginAlt(b)
bestBidOf(b) == IF DOMAIN b = {} THEN 0 ELSE BidsBegin(b)
bestAskOf(a) == IF DOMAIN a = {} THEN DBL_MAX ELSE AsksBegin(a)

(* ---- OrderBook::matchOrders ---- *)
\* a matching state: the opposite ladder, the index, the incoming quantity and
\* the trades printed so far
MState(lad, loc, qty, trs) == [ladder |-> lad, loc |-> loc, quantity |-> qty, trades |-> trs]

TradeQtyAlt(quantity, restQuantity) == quantity
TradeQtyRest(quantity, restQuantity) == restQuantity
TradeQty(quantity, restQuantity) == Min(quantity, restQuantity)

TradeRec(aggSide, orderID, o, tradeQty, qtyLeft) ==
    [aggSide |-> aggSide, aggID |-> orderID, restID |-> o.orderID,
     restTs |-> o.timestamp, price |-> o.price, qty |-> tradeQty,
     restLeft |-> o.quantity - tradeQty, aggLeft |-> qtyLeft]

\* one iteration of the inner while loop on the queue at level key
MatchFront(aggSide, key, st, orderID) ==
    LET queue == st.ladder[key]
        o == Head(queue)
        tradeQty == TradeQty(st.quantity, o.quantity)
        quantity2 == st.quantity - tradeQty
        left == o.quantity - tradeQty
        tr == TradeRec(aggSide, orderID, o, tradeQty, quantity2)
    IN  IF left = 0
        THEN MState([st.ladder EXCEPT ![key] = PopFront(queue)],
                    MapErase(st.loc, o.orderID), quantity2, Append(st.trades, tr))
        ELSE MState([st.ladder EXCEPT ![key] = [queue EXCEPT ![1].quantity = left]],
                    st.loc, quantity2, Append(st.trades, tr))

RECURSIVE MatchQueue(_, _, _, _)
MatchQueue(aggSide, key, st, orderID) ==
    IF st.quantity > 0 /\ st.ladder[key] # <<>>
    THEN MatchQueue(aggSide, key, MatchFront(aggSide, key, st, orderID), orderID)
    ELSE st

\* if (queue.empty()) erase(begin())
EraseIfEmpty(lad, key) == IF lad[key] = <<>> THEN MapErase(lad, key) ELSE lad

BuyCrossesAlt(askPrice, price) == askPrice >= price
BuyCrosses(askPrice, price) == askPrice <= price
SellCrossesAlt(bidPrice, price) == bidPrice > price
SellCrosses(bidPrice, price) == bidPrice >= price

RECURSIVE MatchBuy(_, _, _)
MatchBuy(st, price, orderID) ==
    IF st.quantity > 0 /\ DOMAIN st.ladder # {} /\ BuyCrosses(AsksBegin(st.ladder), price)
    THEN LET key == AsksBegin(st.ladder)
             r == MatchQueue(BUY, key, st, orderID)
         IN  MatchBuy([r EXCEPT !.ladder = EraseIfEmpty(r.ladder, key)], price, orderID)
    ELSE st

RECURSIVE MatchSell(_, _, _)
MatchSell(st, price, orderID) ==
    IF st.quantity > 0 /\ DOMAIN st.ladder # {} /\ SellCrosses(BidsBegin(st.ladder), price)
    THEN LET key == BidsBegin(st.ladder)
             r == MatchQueue(SELL, key, st, orderID)
         IN  MatchSell([r EXCEPT !.ladder = EraseIfEmpty(r.ladder, key)], price, orderID)
    ELSE st

matchOrders(side, price, quantity, orderID) ==
    IF side = BUY
    THEN MatchBuy(MState(asks, orderLocation, quantity, <<>>), price, orderID)
    ELSE MatchSell(MState(bids, orderLocation, quantity, <<>>), price, orderID)

(* ---- the state after construction ---- *)
\* ThreadSafeQueue(maxSize): an empty queue, not shut down, no thread in a call
QueueConstructed ==
    /\ queue_ = <<>>
    /\ shutdown_ = FALSE
    /\ pc = [t \in Threads |-> "idle"]
    /\ held = [t \in Threads |-> 0]
    /\ qlast = [op |-> "none"]

\* no call of push or pop has finished
NothingDelivered ==
    /\ produced = <<>>
    /\ consumed = <<>>

\* LRUCache(capacity): no node, an empty map
LRUCacheConstructed(capacity) ==
    /\ nodes = <<>>
    /\ head_ = nullptr
    /\ tail_ = nullptr
    /\ map_ = <<>>
    /\ capacity_ = capacity
    /\ accessed = <<>>
    /\ clast = [op |-> "none"]

\* VWAPCalculator(windowSize): an empty window, both sums 0
VWAPCalculatorConstructed(ws) ==
    /\ ticks = <<>>
    /\ windowSize = ws
    /\ totalPriceVolume = 0
    /\ totalVolume = 0
    /\ arrived = <<>>
    /\ wlast = [op |-> "none"]

\* MarketDataProcessor(): an empty symbolMap
MarketDataProcessorConstructed ==
    /\ symbolMap = <<>>
    /\ processed = 0
    /\ mlast = [op |-> "none"]

\* no addOrder call is in progress
MatchIdle == mcall = [pc |-> "idle"]

\* TickProcessor(): an empty queue, no processor thread, running_ false
TickProcessorConstructed ==
    /\ tickQueue_ = <<>>
    /\ vwapData_ = <<>>
    /\ processorThread_ = nullptr
    /\ running_ = FALSE
    /\ ticksProcessed_ = 0
    /\ workerPc = [w \in Workers |-> "none"]
    /\ callerPc = [c \in Callers |-> [pc |-> "idle"]]
    /\ pushedTicks = <<>>
    /\ joinCount = [w \in Workers |-> 0]
    /\ terminated = FALSE
    /\ tlast = [op |-> "none"]

\* the objects that take no part in a run of the order book or of the queue
OthersConstructed ==
    /\ MatchIdle
    /\ TickProcessorConstructed
    /\ NothingDelivered
    /\ LRUCacheConstructed(1)
    /\ VWAPCalculatorConstructed(1)
    /\ MarketDataProcessorConstructed

offBook == <<qvars, dvars, cvars, wvars, mvars, svars, tvars>>
offQueue == <<vars, dvars, cvars, wvars, mvars, svars, tvars>>

Init ==
    /\ OthersConstructed
    /\ bids = <<>>
    /\ asks = <<>>
    /\ orderLocation = <<>>
    /\ bestBid = 0
    /\ bestAsk = DBL_MAX
    /\ currentTimestamp = 0
    /\ trades = <<>>
    /\ last = [op |-> "none"]
    /\ QueueConstructed
    /\ impl = "header"

(* ---- OrderBook::addOrder ---- *)
RejectsQuantityAlt(quantity) == quantity < 0
RejectsQuantity(quantity) == quantity <= 0

\* if (quantity > 0): the remainder rests
RestsAlt(quantity) == quantity >= 0
Rests(quantity) == quantity > 0

\* the resting of the remainder at the back of the level's queue
RestAlt(lad, price, o) == MapPut(lad, price, <<o>> \o MapIndex(lad, price)[price])
Rest(lad, price, o) == MapPut(lad, price, Append(MapIndex(lad, price)[price], o))

addOrder(side, price, quantity, orderID) ==
    IF RejectsQuantity(quantity)
    THEN /\ UNCHANGED book
         /\ trades' = <<>>
         /\ last' = [op |-> "addOrder", accepted |-> FALSE]
    ELSE /\ currentTimestamp < MaxTimestamp
         /\ currentTimestamp' = currentTimestamp + 1
         /\ LET m == matchOrders(side, price, quantity, orderID)
                o == Order(orderID, price, m.quantity, currentTimestamp + 1)
                loc2 == IF Rests(m.quantity)
                        THEN MapPut(m.loc, orderID, [side |-> side, price |-> price])
                        ELSE m.loc
                bids2 == IF side = BUY
                         THEN (IF Rests(m.quantity) THEN Rest(bids, price, o) ELSE bids)
                         ELSE m.ladder
                asks2 == IF side = BUY
                         THEN m.ladder
                         ELSE (IF Rests(m.quantity) THEN Rest(asks, price, o) ELSE asks)
            IN  /\ bids' = bids2
                /\ asks' = asks2
                /\ orderLocation' = loc2
                /\ bestBid' = bestBidOf(bids2)
                /\ bestAsk' = bestAskOf(asks2)
                /\ trades' = m.trades
         /\ last' = [op |-> "addOrder", side |-> side, price |-> price,
                     quantity |-> quantity, orderID |-> orderID, accepted |-> TRUE]

(* ---- OrderBook::cancelOrder ---- *)
\* if (orderQueue.empty()) erase(price)
CancelEraseAlt(lad, price) == lad
CancelErase(lad, price) == IF lad[price] = <<>> THEN MapErase(lad, price) ELSE lad

CancelLevel(lad, price, orderID) ==
    LET lad1 == MapIndex(lad, price)
        lad2 == [lad1 EXCEPT ![price] = RemoveIf(lad1[price], orderID)]
    IN  CancelErase(lad2, price)

\* orderLocation.find(orderID)
FindAlt(loc, orderID) ==
    IF orderID \in DOMAIN loc
    THEN [found |-> TRUE, side |-> loc[orderID].side, price |-> loc[orderID].price]
    ELSE [found |-> TRUE, side |-> BUY, price |-> 0]
Find(loc, orderID) ==
    IF orderID \in DOMAIN loc
    THEN [found |-> TRUE, side |-> loc[orderID].side, price |-> loc[orderID].price]
    ELSE [found |-> FALSE]

cancelOrder(orderID) ==
    IF ~Find(orderLocation, orderID).found
    THEN /\ UNCHANGED book
         /\ trades' = <<>>
         /\ last' = [op |-> "cancelOrder", orderID |-> orderID, ret |-> FALSE]
    ELSE LET side == Find(orderLocation, orderID).side
             price == Find(orderLocation, orderID).price
             bids2 == IF side = BUY THEN CancelLevel(bids, price, orderID) ELSE bids
             asks2 == IF side = BUY THEN asks ELSE CancelLevel(asks, price, orderID)
         IN  /\ bids' = bids2
             /\ asks' = asks2
             /\ orderLocation' = MapErase(orderLocation, orderID)
             /\ bestBid' = bestBidOf(bids2)
             /\ bestAsk' = bestAskOf(asks2)
             /\ UNCHANGED currentTimestamp
             /\ trades' = <<>>
             /\ last' = [op |-> "cancelOrder", orderID |-> orderID, ret |-> TRUE,
                         side |-> side, price |-> price]

(* ---- OrderBook::getBestBid / getBestAsk / printOrderBook ---- *)
\* the aggregate quantity printed for one level
RECURSIVE LevelTotal(_)
LevelTotal(queue) == IF queue = <<>> THEN 0 ELSE Head(queue).quantity + LevelTotal(Tail(queue))

\* the lines printed for one ladder: price -> total quantity
Printed(lad) == [p \in DOMAIN lad |-> LevelTotal(lad[p])]

getBestBid ==
    /\ UNCHANGED book
    /\ trades' = <<>>
    /\ last' = [op |-> "getBestBid", ret |-> bestBid]

getBestAsk ==
    /\ UNCHANGED book
    /\ trades' = <<>>
    /\ last' = [op |-> "getBestAsk", ret |-> bestAsk]

printOrderBookAlt ==
    /\ bids' = MapIndex(bids, bestBid)
    /\ asks' = MapIndex(asks, bestAsk)
    /\ UNCHANGED <<orderLocation, bestBid, bestAsk, currentTimestamp>>
    /\ trades' = <<>>
    /\ last' = [op |-> "printOrderBook", asks |-> Printed(asks), bids |-> Printed(bids),
                bestAsk |-> IF bestAsk = DBL_MAX THEN 0 ELSE bestAsk, bestBid |-> bestBid]
printOrderBook ==
    /\ UNCHANGED book
    /\ trades' = <<>>
    /\ last' = [op |-> "printOrderBook", asks |-> Printed(asks), bids |-> Printed(bids),
                bestAsk |-> IF bestAsk = DBL_MAX THEN 0 ELSE bestAsk, bestBid |-> bestBid]

AddOrder ==
    /\ \E side \in Sides, price \in Prices, quantity \in Quantities, orderID \in OrderIDs :
          addOrder(side, price, quantity, orderID)
    /\ UNCHANGED offBook

CancelOrder ==
    /\ \E orderID \in OrderIDs : cancelOrder(orderID)
    /\ UNCHANGED offBook

\* addOrder with quantities large enough to exhaust several levels
AddLargeOrder ==
    /\ \E side \in Sides, price \in Prices, quantity \in SweepQuantities, orderID \in OrderIDs :
          addOrder(side, price, quantity, orderID)
    /\ UNCHANGED offBook

GetBestBid == getBestBid /\ UNCHANGED offBook

GetBestAsk == getBestAsk /\ UNCHANGED offBook

PrintOrderBook == printOrderBook /\ UNCHANGED offBook

\* the calls that change the book
Next == AddOrder \/ CancelOrder

Spec == Init /\ [][Next]_vars

\* the whole public interface, the const member functions included
NextReads == AddOrder \/ CancelOrder \/ GetBestBid \/ GetBestAsk \/ PrintOrderBook

SpecReads == Init /\ [][NextReads]_vars

NextSweep == AddLargeOrder \/ CancelOrder

SpecSweep == Init /\ [][NextSweep]_vars

(* ---- addOrder with matchOrders run one loop test at a time ---- *)
offStep == <<trades, last, qvars, dvars, cvars, wvars, mvars, tvars>>

\* the ladder matchOrders takes orders from, and its begin()
OppositeLadder(side) == IF side = BUY THEN asks ELSE bids
OppositeBegin(side) == IF side = BUY THEN AsksBegin(asks) ELSE BidsBegin(bids)

\* the test of the outer while loop
OuterGuard(c) ==
    /\ c.quantity > 0
    /\ DOMAIN OppositeLadder(c.side) # {}
    /\ IF c.side = BUY THEN BuyCrosses(AsksBegin(asks), c.price)
       ELSE SellCrosses(BidsBegin(bids), c.price)

\* the test of the inner while loop
InnerGuardAlt(c) == OppositeLadder(c.side)[OppositeBegin(c.side)] # <<>>
InnerGuard(c) == c.quantity > 0 /\ OppositeLadder(c.side)[OppositeBegin(c.side)] # <<>>

\* addOrder up to the call of matchOrders
enterAddOrder(side, price, quantity, orderID) ==
    /\ mcall.pc = "idle"
    /\ IF RejectsQuantity(quantity)
       THEN UNCHANGED <<book, mcall>>
       ELSE /\ currentTimestamp < MaxTimestamp
            /\ currentTimestamp' = currentTimestamp + 1
            /\ mcall' = [pc |-> "outer", side |-> side, price |-> price,
                         quantity |-> quantity, orderID |-> orderID]
            /\ UNCHANGED <<bids, asks, orderLocation, bestBid, bestAsk>>

outerTest ==
    /\ mcall.pc = "outer"
    /\ mcall' = [mcall EXCEPT !.pc = IF OuterGuard(mcall) THEN "inner" ELSE "rest"]
    /\ UNCHANGED book

\* the test of the inner loop and, if it passes, one iteration of its body
innerTest ==
    /\ mcall.pc = "inner"
    /\ IF InnerGuard(mcall)
       THEN LET r == MatchFront(mcall.side, OppositeBegin(mcall.side),
                               MState(OppositeLadder(mcall.side), orderLocation,
                                      mcall.quantity, <<>>),
                               mcall.orderID)
            IN  /\ IF mcall.side = BUY
                   THEN asks' = r.ladder /\ UNCHANGED bids
                   ELSE bids' = r.ladder /\ UNCHANGED asks
                /\ orderLocation' = r.loc
                /\ mcall' = [mcall EXCEPT !.quantity = r.quantity]
                /\ UNCHANGED <<bestBid, bestAsk, currentTimestamp>>
       ELSE /\ mcall' = [mcall EXCEPT !.pc = "erase"]
            /\ UNCHANGED book

\* the end of an iteration of the outer loop
levelErase ==
    /\ mcall.pc = "erase"
    /\ IF mcall.side = BUY
       THEN asks' = EraseIfEmpty(asks, AsksBegin(asks)) /\ UNCHANGED bids
       ELSE bids' = EraseIfEmpty(bids, BidsBegin(bids)) /\ UNCHANGED asks
    /\ mcall' = [mcall EXCEPT !.pc = "outer"]
    /\ UNCHANGED <<orderLocation, bestBid, bestAsk, currentTimestamp>>

\* addOrder after matchOrders has returned
restRemainder ==
    /\ mcall.pc = "rest"
    /\ LET o == Order(mcall.orderID, mcall.price, mcall.quantity, currentTimestamp)
           rests == Rests(mcall.quantity)
           bids2 == IF mcall.side = BUY /\ rests THEN Rest(bids, mcall.price, o) ELSE bids
           asks2 == IF mcall.side = SELL /\ rests THEN Rest(asks, mcall.price, o) ELSE asks
       IN  /\ bids' = bids2
           /\ asks' = asks2
           /\ orderLocation' = IF rests
                                THEN MapPut(orderLocation, mcall.orderID,
                                            [side |-> mcall.side, price |-> mcall.price])
                                ELSE orderLocation
           /\ bestBid' = bestBidOf(bids2)
           /\ bestAsk' = bestAskOf(asks2)
    /\ mcall' = [pc |-> "idle"]
    /\ UNCHANGED currentTimestamp

EnterAddOrder ==
    /\ \E side \in Sides, price \in Prices, quantity \in Quantities, orderID \in OrderIDs :
          enterAddOrder(side, price, quantity, orderID)
    /\ UNCHANGED offStep

OuterTest == outerTest /\ UNCHANGED offStep

InnerTest == innerTest /\ UNCHANGED offStep

LevelErase == levelErase /\ UNCHANGED offStep

RestRemainder == restRemainder /\ UNCHANGED offStep

NextMatch == EnterAddOrder \/ OuterTest \/ InnerTest \/ LevelErase \/ RestRemainder

SpecMatch == Init /\ [][NextMatch]_<<vars, svars>>

\* the thread that called addOrder keeps running
FairSpecMatch ==
    /\ SpecMatch
    /\ WF_<<vars, svars>>(OuterTest \/ InnerTest \/ LevelErase \/ RestRemainder)


(***************************************************************************)
(* ThreadSafeQueue                                                         *)
(***************************************************************************)
max_size_ == MaxSize

\* the predicate of notFull_.wait in push
NotFullPredAlt(q, sd) == Len(q) <= max_size_ \/ sd
NotFullPred(q, sd) == Len(q) < max_size_ \/ sd

\* the predicate of notEmpty_.wait in pop
NotEmptyPred(q, sd) == q # <<>> \/ sd

\* the states a condition variable can leave the threads in after notify_one:
\* one of the threads waiting on it, if any, becomes ready to re-check
NotifyOneAlt(f, waiting, ready) == {f}
NotifyOne(f, waiting, ready) ==
    IF \E w \in Threads : f[w] = waiting
    THEN {[f EXCEPT ![w] = ready] : w \in {x \in Threads : f[x] = waiting}}
    ELSE {f}

\* notify_all: every thread waiting on it becomes ready to re-check
NotifyAllAlt(f, waiting, ready) ==
    IF \E w \in Threads : f[w] = waiting
    THEN LET w == CHOOSE x \in Threads : f[x] = waiting IN [f EXCEPT ![w] = ready]
    ELSE f
NotifyAll(f, waiting, ready) == [t \in Threads |-> IF f[t] = waiting THEN ready ELSE f[t]]

(* ---- push (const T& and T&&) ---- *)
\* the part of push after the wait, with the mutex held
PushBody(t, item) ==
    IF shutdown_
    THEN /\ pc' = [pc EXCEPT ![t] = "idle"]
         /\ held' = [held EXCEPT ![t] = 0]
         /\ qlast' = [op |-> "push", thread |-> t, item |-> item, out |-> "throw"]
         /\ UNCHANGED <<queue_, shutdown_, impl>>
    ELSE /\ queue_' = Append(queue_, item)
         /\ pc' \in NotifyOne([pc EXCEPT ![t] = "idle"], "pop_wait", "pop_ready")
         /\ held' = [held EXCEPT ![t] = 0]
         /\ qlast' = [op |-> "push", thread |-> t, item |-> item, out |-> "ok"]
         /\ UNCHANGED <<shutdown_, impl>>

PushWait(t, item) ==
    /\ pc' = [pc EXCEPT ![t] = "push_wait"]
    /\ held' = [held EXCEPT ![t] = item]
    /\ UNCHANGED <<queue_, shutdown_, impl, qlast>>

push(t, item) ==
    /\ pc[t] = "idle"
    /\ IF NotFullPred(queue_, shutdown_) THEN PushBody(t, item) ELSE PushWait(t, item)

\* a notified producer gets the mutex back and re-checks the predicate
pushResume(t) ==
    /\ pc[t] = "push_ready"
    /\ IF NotFullPred(queue_, shutdown_) THEN PushBody(t, held[t]) ELSE PushWait(t, held[t])

(* ---- tryPush (const T& and T&&) ---- *)
TryPushRefusesAlt(q, sd) == Len(q) >= max_size_
TryPushRefuses(q, sd) == Len(q) >= max_size_ \/ sd

tryPush(t, item) ==
    /\ pc[t] = "idle"
    /\ IF TryPushRefuses(queue_, shutdown_)
       THEN /\ qlast' = [op |-> "tryPush", thread |-> t, item |-> item, ret |-> FALSE]
            /\ UNCHANGED <<queue_, shutdown_, impl, pc, held>>
       ELSE /\ queue_' = Append(queue_, item)
            /\ pc' \in NotifyOne(pc, "pop_wait", "pop_ready")
            /\ qlast' = [op |-> "tryPush", thread |-> t, item |-> item, ret |-> TRUE]
            /\ UNCHANGED <<shutdown_, impl, held>>

(* ---- pop ---- *)
\* std::queue::front
FrontAlt(q) == q[Len(q)]
Front(q) == Head(q)

\* the check after the wait: the header version throws only on an empty queue
PopThrowsIn(version, q, sd) == IF version = "header" THEN sd /\ q = <<>> ELSE sd
PopThrows(q, sd) == PopThrowsIn(impl, q, sd)

PopBody(t) ==
    IF PopThrows(queue_, shutdown_)
    THEN /\ pc' = [pc EXCEPT ![t] = "idle"]
         /\ qlast' = [op |-> "pop", thread |-> t, out |-> "throw"]
         /\ UNCHANGED <<queue_, shutdown_, impl, held>>
    ELSE /\ queue_' = Tail(queue_)
         /\ pc' \in NotifyOne([pc EXCEPT ![t] = "idle"], "push_wait", "push_ready")
         /\ qlast' = [op |-> "pop", thread |-> t, out |-> "ok", item |-> Front(queue_)]
         /\ UNCHANGED <<shutdown_, impl, held>>

PopWait(t) ==
    /\ pc' = [pc EXCEPT ![t] = "pop_wait"]
    /\ UNCHANGED <<queue_, shutdown_, impl, held, qlast>>

pop(t) ==
    /\ pc[t] = "idle"
    /\ IF NotEmptyPred(queue_, shutdown_) THEN PopBody(t) ELSE PopWait(t)

\* a notified consumer gets the mutex back and re-checks the predicate
popResume(t) ==
    /\ pc[t] = "pop_ready"
    /\ IF NotEmptyPred(queue_, shutdown_) THEN PopBody(t) ELSE PopWait(t)

(* ---- tryPop ---- *)
TryPopRefusesIn(version, q, sd) == IF version = "header" THEN q = <<>> ELSE q = <<>> \/ sd
TryPopRefuses(q, sd) == TryPopRefusesIn(impl, q, sd)

tryPop(t) ==
    /\ pc[t] = "idle"
    /\ IF TryPopRefuses(queue_, shutdown_)
       THEN /\ qlast' = [op |-> "tryPop", thread |-> t, ret |-> FALSE]
            /\ UNCHANGED <<queue_, shutdown_, impl, pc, held>>
       ELSE /\ queue_' = Tail(queue_)
            /\ pc' \in NotifyOne(pc, "push_wait", "push_ready")
            /\ qlast' = [op |-> "tryPop", thread |-> t, ret |-> TRUE, item |-> Front(queue_)]
            /\ UNCHANGED <<shutdown_, impl, held>>

(* ---- shutdown ---- *)
shutdown(t) ==
    /\ pc[t] = "idle"
    /\ shutdown_' = TRUE
    /\ pc' = NotifyAll(NotifyAll(pc, "pop_wait", "pop_ready"), "push_wait", "push_ready")
    /\ qlast' = [op |-> "shutdown", thread |-> t]
    /\ UNCHANGED <<queue_, impl, held>>

(* ---- a spurious wake-up of a waiting thread ---- *)
spuriousWakeup(t) ==
    /\ pc[t] \in {"push_wait", "pop_wait"}
    /\ pc' = [pc EXCEPT ![t] = IF pc[t] = "push_wait" THEN "push_ready" ELSE "pop_ready"]
    /\ UNCHANGED <<queue_, shutdown_, impl, held, qlast>>

\* the order book takes no part in the queue's runs
InitQ ==
    /\ bids = <<>>
    /\ asks = <<>>
    /\ orderLocation = <<>>
    /\ bestBid = 0
    /\ bestAsk = DBL_MAX
    /\ currentTimestamp = 0
    /\ trades = <<>>
    /\ last = [op |-> "none"]
    /\ QueueConstructed
    /\ impl \in {"header", "inline"}
    /\ OthersConstructed

Push == (\E t \in Threads, item \in Items : push(t, item)) /\ UNCHANGED offQueue

PushResume == (\E t \in Threads : pushResume(t)) /\ UNCHANGED offQueue

TryPush == (\E t \in Threads, item \in Items : tryPush(t, item)) /\ UNCHANGED offQueue

Pop == (\E t \in Threads : pop(t)) /\ UNCHANGED offQueue

PopResume == (\E t \in Threads : popResume(t)) /\ UNCHANGED offQueue

TryPop == (\E t \in Threads : tryPop(t)) /\ UNCHANGED offQueue

Shutdown == (\E t \in Threads : shutdown(t)) /\ UNCHANGED offQueue

SpuriousWakeup == (\E t \in Threads : spuriousWakeup(t)) /\ UNCHANGED offQueue

NextQ == Push \/ PushResume \/ TryPush \/ Pop \/ PopResume \/ TryPop \/ Shutdown \/ SpuriousWakeup

SpecQ == InitQ /\ [][NextQ]_qvars

\* a thread that was notified is scheduled, and gets the mutex, eventually
FairSpecQ ==
    /\ SpecQ
    /\ \A t \in Threads : WF_qvars(pushResume(t) /\ UNCHANGED offQueue)
    /\ \A t \in Threads : WF_qvars(popResume(t) /\ UNCHANGED offQueue)

(* ---- the queue while nobody calls shutdown ---- *)
NextRunning == Push \/ PushResume \/ TryPush \/ Pop \/ PopResume \/ TryPop \/ SpuriousWakeup

SpecRunning == InitQ /\ [][NextRunning]_qvars

FairSpecRunning ==
    /\ SpecRunning
    /\ \A t \in Threads : WF_qvars(pushResume(t) /\ UNCHANGED offQueue)
    /\ \A t \in Threads : WF_qvars(popResume(t) /\ UNCHANGED offQueue)

(* ---- producers and consumers (Test 4) ---- *)
\* the threads of Test 4 count the calls that succeeded (produced++ after a
\* push, consumed++ after a tryPop that returned true); the model keeps the
\* items with the counts
offDelivery == <<vars, cvars, wvars, mvars, svars, tvars>>

InPush == {t \in Threads : pc[t] \in {"push_wait", "push_ready"}}

MayProduce == Len(produced) + Cardinality(InPush) < MaxItems

ProducedBy(t, op) ==
    IF pc'[t] = "idle" /\ qlast'.op = op /\ qlast'.thread = t
       /\ (IF op = "push" THEN qlast'.out = "ok" ELSE qlast'.ret)
    THEN Append(produced, qlast'.item)
    ELSE produced

ConsumedBy(t, op) ==
    IF pc'[t] = "idle" /\ qlast'.op = op /\ qlast'.thread = t
       /\ (IF op = "pop" THEN qlast'.out = "ok" ELSE qlast'.ret)
    THEN Append(consumed, qlast'.item)
    ELSE consumed

ProducerPush ==
    /\ MayProduce
    /\ \E t \in Threads, item \in Items :
          push(t, item) /\ produced' = ProducedBy(t, "push")
    /\ UNCHANGED <<consumed, offDelivery>>

ProducerPushResume ==
    /\ \E t \in Threads : pushResume(t) /\ produced' = ProducedBy(t, "push")
    /\ UNCHANGED <<consumed, offDelivery>>

ProducerTryPush ==
    /\ MayProduce
    /\ \E t \in Threads, item \in Items :
          tryPush(t, item) /\ produced' = ProducedBy(t, "tryPush")
    /\ UNCHANGED <<consumed, offDelivery>>

ConsumerPop ==
    /\ \E t \in Threads : pop(t) /\ consumed' = ConsumedBy(t, "pop")
    /\ UNCHANGED <<produced, offDelivery>>

ConsumerPopResume ==
    /\ \E t \in Threads : popResume(t) /\ consumed' = ConsumedBy(t, "pop")
    /\ UNCHANGED <<produced, offDelivery>>

ConsumerTryPop ==
    /\ \E t \in Threads : tryPop(t) /\ consumed' = ConsumedBy(t, "tryPop")
    /\ UNCHANGED <<produced, offDelivery>>

NextDelivery ==
    \/ ProducerPush \/ ProducerPushResume \/ ProducerTryPush
    \/ ConsumerPop \/ ConsumerPopResume \/ ConsumerTryPop
    \/ Shutdown \/ SpuriousWakeup

SpecDelivery == InitQ /\ [][NextDelivery]_<<qvars, dvars>>

(***************************************************************************)
(* LRUCache                                                                *)
(***************************************************************************)
\* the addresses operator new can return: a cache never has more than
\* capacity_ + 1 nodes alive
Addresses == 1..(MaxCapacity + 1)

Node(k, v) == [key |-> k, value |-> v, prev |-> nullptr, next |-> nullptr]

\* the list a member function works on: the nodes, head_ and tail_
List(ns, h, t) == [nodes |-> ns, head |-> h, tail |-> t]

detachAlt(l, n) ==
    IF n = nullptr THEN l
    ELSE LET p == l.nodes[n].prev
             x == l.nodes[n].next
             ns1 == IF p # nullptr THEN [l.nodes EXCEPT ![p].next = x] ELSE l.nodes
             h1 == IF p # nullptr THEN l.head ELSE x
             ns2 == IF x # nullptr THEN [ns1 EXCEPT ![x].prev = p] ELSE ns1
         IN  List([ns2 EXCEPT ![n].prev = nullptr, ![n].next = nullptr], h1, l.tail)
detach(l, n) ==
    IF n = nullptr THEN l
    ELSE LET p == l.nodes[n].prev
             x == l.nodes[n].next
             ns1 == IF p # nullptr THEN [l.nodes EXCEPT ![p].next = x] ELSE l.nodes
             h1 == IF p # nullptr THEN l.head ELSE x
             ns2 == IF x # nullptr THEN [ns1 EXCEPT ![x].prev = p] ELSE ns1
             t1 == IF x # nullptr THEN l.tail ELSE p
         IN  List([ns2 EXCEPT ![n].prev = nullptr, ![n].next = nullptr], h1, t1)

push_front(l, n) ==
    IF n = nullptr THEN l
    ELSE LET ns1 == [l.nodes EXCEPT ![n].prev = nullptr, ![n].next = l.head]
             ns2 == IF l.head # nullptr THEN [ns1 EXCEPT ![l.head].prev = n] ELSE ns1
         IN  List(ns2, n, IF l.tail = nullptr THEN n ELSE l.tail)

\* size() is map_.size()
size == Cardinality(DOMAIN map_)

\* the keys in the order of their last access, most recent first
Touch(log, k) == <<k>> \o SelectSeq(log, LAMBDA x : x # k)

(* ---- get ---- *)
get(key) ==
    IF key \notin DOMAIN map_
    THEN /\ clast' = [op |-> "get", key |-> key, ret |-> <<>>]
         /\ UNCHANGED <<nodes, head_, tail_, map_, capacity_, accessed>>
    ELSE LET n == map_[key]
             l == push_front(detach(List(nodes, head_, tail_), n), n)
         IN  /\ nodes' = l.nodes
             /\ head_' = l.head
             /\ tail_' = l.tail
             /\ accessed' = Touch(accessed, key)
             /\ clast' = [op |-> "get", key |-> key, ret |-> <<l.nodes[n].value>>]
             /\ UNCHANGED <<map_, capacity_>>

(* ---- put ---- *)
\* operator new: an address that holds no node
New(ns) == CHOOSE a \in Addresses : a \notin DOMAIN ns /\ \A b \in Addresses \ DOMAIN ns : a <= b

OverCapacityAlt(sz) == sz > capacity_ + 1
OverCapacity(sz) == sz > capacity_

VictimAlt(l) == l.head
Victim(l) == l.tail

SetValueAlt(ns, n, value) == ns
SetValue(ns, n, value) == [ns EXCEPT ![n].value = value]

\* put of a key that is not in map_
PutNew(key, value) ==
    LET n == New(nodes)
        l == push_front(List(MapPut(nodes, n, Node(key, value)), head_, tail_), n)
        m == MapPut(map_, key, n)
    IN  IF OverCapacity(Cardinality(DOMAIN m))
        THEN LET victim == Victim(l)
                 l2 == detach(l, victim)
             IN  /\ map_' = MapErase(m, l.nodes[victim].key)
                 /\ nodes' = MapErase(l2.nodes, victim)
                 /\ head_' = l2.head
                 /\ tail_' = l2.tail
        ELSE /\ map_' = m
             /\ nodes' = l.nodes
             /\ head_' = l.head
             /\ tail_' = l.tail

\* put of a key that is in map_
PutExisting(key, value) ==
    LET n == map_[key]
        l == push_front(detach(List(nodes, head_, tail_), n), n)
    IN  /\ nodes' = SetValue(l.nodes, n, value)
        /\ head_' = l.head
        /\ tail_' = l.tail
        /\ UNCHANGED map_

put(key, value) ==
    /\ clast' = [op |-> "put", key |-> key, value |-> value, found |-> key \in DOMAIN map_]
    /\ UNCHANGED capacity_
    /\ IF capacity_ = 0
       THEN UNCHANGED <<nodes, head_, tail_, map_, accessed>>
       ELSE /\ accessed' = Touch(accessed, key)
            /\ IF key \notin DOMAIN map_ THEN PutNew(key, value) ELSE PutExisting(key, value)

(* ---- contains, size, clear ---- *)
contains(key) ==
    /\ clast' = [op |-> "contains", key |-> key, ret |-> key \in DOMAIN map_]
    /\ UNCHANGED <<nodes, head_, tail_, map_, capacity_, accessed>>

Size ==
    /\ clast' = [op |-> "size", ret |-> size]
    /\ UNCHANGED <<nodes, head_, tail_, map_, capacity_, accessed>>

\* the nodes left after deleting every node from cur along next
RECURSIVE DeleteFrom(_, _)
DeleteFrom(ns, cur) ==
    IF cur = nullptr THEN ns ELSE DeleteFrom(MapErase(ns, cur), ns[cur].next)

clear ==
    /\ nodes' = DeleteFrom(nodes, head_)
    /\ map_' = <<>>
    /\ head_' = nullptr
    /\ tail_' = nullptr
    /\ clast' = [op |-> "clear"]
    /\ UNCHANGED <<capacity_, accessed>>

offCache == <<vars, qvars, dvars, wvars, mvars, svars, tvars>>

InitCache ==
    /\ MatchIdle
    /\ TickProcessorConstructed
    /\ \E capacity \in 0..MaxCapacity : LRUCacheConstructed(capacity)
    /\ bids = <<>>
    /\ asks = <<>>
    /\ orderLocation = <<>>
    /\ bestBid = 0
    /\ bestAsk = DBL_MAX
    /\ currentTimestamp = 0
    /\ trades = <<>>
    /\ last = [op |-> "none"]
    /\ QueueConstructed
    /\ impl = "header"
    /\ NothingDelivered
    /\ VWAPCalculatorConstructed(1)
    /\ MarketDataProcessorConstructed

Get == (\E key \in Keys : get(key)) /\ UNCHANGED offCache

Put == (\E key \in Keys, value \in Values : put(key, value)) /\ UNCHANGED offCache

Contains == (\E key \in Keys : contains(key)) /\ UNCHANGED offCache

GetSize == Size /\ UNCHANGED offCache

Clear == clear /\ UNCHANGED offCache

NextCache == Get \/ Put \/ Contains \/ GetSize \/ Clear

SpecCache == InitCache /\ [][NextCache]_cvars

(***************************************************************************)
(* VWAPCalculator                                                          *)
(***************************************************************************)
Tick(p, v) == [price |-> p, volume |-> v]

\* the quotient of two doubles, kept as numerator and denominator
Ratio(n, d) == [num |-> n, den |-> d]

getTickCountOf(ts) == Len(ts)

(* ---- addTick ---- *)
RejectsVolumeAlt(volume) == volume < 0
RejectsVolume(volume) == volume <= 0

WindowFullAlt(n) == windowSize < n
WindowFull(n) == windowSize <= n

VictimPriceVolumeAlt(victim) == victim.price
VictimPriceVolume(victim) == victim.price * victim.volume

addTick(price, volume) ==
    IF RejectsVolume(volume)
    THEN /\ wlast' = [op |-> "addTick", out |-> "throw"]
         /\ UNCHANGED <<ticks, windowSize, totalPriceVolume, totalVolume, arrived>>
    ELSE LET full == WindowFull(getTickCountOf(ticks))
             victim == Head(ticks)
             ts1 == IF full THEN Tail(ticks) ELSE ticks
             tpv1 == IF full THEN totalPriceVolume - VictimPriceVolume(victim)
                     ELSE totalPriceVolume
             tv1 == IF full THEN totalVolume - victim.volume ELSE totalVolume
         IN  /\ ticks' = Append(ts1, Tick(price, volume))
             /\ totalPriceVolume' = tpv1 + price * volume
             /\ totalVolume' = tv1 + volume
             /\ arrived' = Append(arrived, Tick(price, volume))
             /\ wlast' = [op |-> "addTick", out |-> "ok", price |-> price, volume |-> volume]
             /\ UNCHANGED windowSize

(* ---- the const member functions ---- *)
getVWAP ==
    /\ wlast' = [op |-> "getVWAP",
                 ret |-> IF totalVolume = 0 THEN Ratio(0, 1)
                         ELSE Ratio(totalPriceVolume, totalVolume)]
    /\ UNCHANGED <<ticks, windowSize, totalPriceVolume, totalVolume, arrived>>

getTickCount ==
    /\ wlast' = [op |-> "getTickCount", ret |-> getTickCountOf(ticks)]
    /\ UNCHANGED <<ticks, windowSize, totalPriceVolume, totalVolume, arrived>>

getTotalVolume ==
    /\ wlast' = [op |-> "getTotalVolume", ret |-> totalVolume]
    /\ UNCHANGED <<ticks, windowSize, totalPriceVolume, totalVolume, arrived>>

getTotalPriceVolume ==
    /\ wlast' = [op |-> "getTotalPriceVolume", ret |-> totalPriceVolume]
    /\ UNCHANGED <<ticks, windowSize, totalPriceVolume, totalVolume, arrived>>

(* ---- clear ---- *)
clearTicks ==
    /\ ticks' = <<>>
    /\ totalPriceVolume' = 0
    /\ totalVolume' = 0
    /\ arrived' = <<>>
    /\ wlast' = [op |-> "clear"]
    /\ UNCHANGED windowSize

offVWAP == <<vars, qvars, dvars, cvars, mvars, svars, tvars>>

InitVWAP ==
    /\ MatchIdle
    /\ TickProcessorConstructed
    /\ \E ws \in 1..MaxWindow : VWAPCalculatorConstructed(ws)
    /\ bids = <<>>
    /\ asks = <<>>
    /\ orderLocation = <<>>
    /\ bestBid = 0
    /\ bestAsk = DBL_MAX
    /\ currentTimestamp = 0
    /\ trades = <<>>
    /\ last = [op |-> "none"]
    /\ QueueConstructed
    /\ impl = "header"
    /\ NothingDelivered
    /\ LRUCacheConstructed(1)
    /\ MarketDataProcessorConstructed

AddTick ==
    /\ Len(arrived) < MaxArrived
    /\ \E price \in TickPrices, volume \in Volumes : addTick(price, volume)
    /\ UNCHANGED offVWAP

GetVWAP == getVWAP /\ UNCHANGED offVWAP

GetTickCount == getTickCount /\ UNCHANGED offVWAP

GetTotalVolume == getTotalVolume /\ UNCHANGED offVWAP

GetTotalPriceVolume == getTotalPriceVolume /\ UNCHANGED offVWAP

ClearTicks == clearTicks /\ UNCHANGED offVWAP

NextVWAP ==
    \/ AddTick \/ GetVWAP \/ GetTickCount \/ GetTotalVolume \/ GetTotalPriceVolume
    \/ ClearTicks

SpecVWAP == InitVWAP /\ [][NextVWAP]_wvars

(***************************************************************************)
(* MarketDataProcessor                                                     *)
(***************************************************************************)
MarketTick(ts, sym, p, v) == [timestamp |-> ts, symbol |-> sym, price |-> p, volume |-> v]

\* std::deque::push_front and pop_back
PushFront(dq, x) == <<x>> \o dq
PopBack(dq) == SubSeq(dq, 1, Len(dq) - 1)
Back(dq) == dq[Len(dq)]

\* the test of the loop in cleanOldTicks
TooOld(currentTime, tick) == (currentTime - tick.timestamp) > TIME_WINDOW_MS

RECURSIVE CleanDeque(_, _)
CleanDeque(dq, currentTime) ==
    IF dq # <<>> /\ TooOld(currentTime, Back(dq))
    THEN CleanDeque(PopBack(dq), currentTime)
    ELSE dq

cleanOldTicks(sm, symbol, currentTime) ==
    IF symbol \notin DOMAIN sm THEN sm
    ELSE [sm EXCEPT ![symbol] = CleanDeque(sm[symbol], currentTime)]

processTick(tick) ==
    LET sm0 == MapIndex(symbolMap, tick.symbol)
        sm1 == [sm0 EXCEPT ![tick.symbol] = PushFront(sm0[tick.symbol], tick)]
    IN  /\ symbolMap' = cleanOldTicks(sm1, tick.symbol, tick.timestamp)
        /\ processed' = processed + 1
        /\ mlast' = [op |-> "processTick", tick |-> tick]

\* getTickCount(symbol) of MarketDataProcessor
getSymbolTickCount(symbol) ==
    /\ mlast' = [op |-> "getTickCount", symbol |-> symbol,
                 ret |-> IF symbol \notin DOMAIN symbolMap THEN 0 ELSE Len(symbolMap[symbol])]
    /\ UNCHANGED <<symbolMap, processed>>

offProcessor == <<vars, qvars, dvars, cvars, wvars, svars, tvars>>

InitProcessor ==
    /\ MatchIdle
    /\ TickProcessorConstructed
    /\ MarketDataProcessorConstructed
    /\ bids = <<>>
    /\ asks = <<>>
    /\ orderLocation = <<>>
    /\ bestBid = 0
    /\ bestAsk = DBL_MAX
    /\ currentTimestamp = 0
    /\ trades = <<>>
    /\ last = [op |-> "none"]
    /\ QueueConstructed
    /\ impl = "header"
    /\ NothingDelivered
    /\ LRUCacheConstructed(1)
    /\ VWAPCalculatorConstructed(1)

ProcessTick ==
    /\ processed < MaxTicks
    /\ \E ts \in Timestamps, sym \in Symbols : processTick(MarketTick(ts, sym, 150, 100))
    /\ UNCHANGED offProcessor

GetSymbolTickCount == (\E sym \in Symbols : getSymbolTickCount(sym)) /\ UNCHANGED offProcessor

NextProcessor == ProcessTick \/ GetSymbolTickCount

SpecProcessor == InitProcessor /\ [][NextProcessor]_mvars

(***************************************************************************)
(* TickProcessor                                                           *)
(***************************************************************************)
\* Tick(symbol, price, volume)
ProcessorTick(s, p, v) == [symbol |-> s, price |-> p, volume |-> v]

\* the ticks the callers add: one that validateTick accepts, one it rejects
ProcessorTicks == {ProcessorTick("AAPL", 150, 100), ProcessorTick("AAPL", 150, 0)}

\* struct VWAPData
VWAPData(vwap, value, volume) ==
    [vwap |-> vwap, totalValue |-> value, totalVolume |-> volume]

validateTick(tick) == tick.symbol # "" /\ tick.price > 0 /\ tick.volume > 0

updateVWAP(data, tick) ==
    LET old == IF tick.symbol \in DOMAIN data THEN data[tick.symbol]
               ELSE VWAPData(Ratio(0, 1), 0, 0)
        value == old.totalValue + tick.price * tick.volume
        volume == old.totalVolume + tick.volume
    IN  MapPut(data, tick.symbol,
               VWAPData(IF volume > 0 THEN Ratio(value, volume) ELSE old.vwap,
                        value, volume))

\* the body both loops of processorLoop run on a tick they popped
HandleTick(tick) ==
    IF validateTick(tick)
    THEN /\ vwapData_' = updateVWAP(vwapData_, tick)
         /\ ticksProcessed_' = ticksProcessed_ + 1
    ELSE UNCHANGED <<vwapData_, ticksProcessed_>>

\* a processor thread that was created and has not left processorLoop
Running(w) == workerPc[w] \in {"loop", "wait", "drain"}

Return(c, record) ==
    /\ callerPc' = [callerPc EXCEPT ![c] = [pc |-> "idle"]]
    /\ tlast' = record

(* ---- start ---- *)
\* running_.compare_exchange_strong(expected, true)
startCompareExchange(c) ==
    /\ callerPc[c].pc = "idle"
    /\ IF running_
       THEN /\ Return(c, [op |-> "start", caller |-> c, started |-> FALSE])
            /\ UNCHANGED running_
       ELSE /\ Cardinality({w \in Workers : workerPc[w] = "none"}) >
                 Cardinality({d \in Callers : callerPc[d].pc = "start_thread"})
            /\ running_' = TRUE
            /\ callerPc' = [callerPc EXCEPT ![c] = [pc |-> "start_thread"]]
            /\ UNCHANGED tlast
    /\ UNCHANGED <<tickQueue_, vwapData_, processorThread_, ticksProcessed_, workerPc,
                   pushedTicks, joinCount, terminated>>

\* processorThread_ = std::thread(&TickProcessor::processorLoop, this): the
\* new thread runs; assigning to a std::thread that is joinable calls
\* std::terminate
startThread(c) ==
    /\ callerPc[c].pc = "start_thread"
    /\ LET w == CHOOSE x \in Workers :
                   workerPc[x] = "none" /\ \A y \in Workers : workerPc[y] = "none" => x <= y
       IN  /\ workerPc' = [workerPc EXCEPT ![w] = "loop"]
           /\ IF processorThread_ # nullptr
              THEN /\ terminated' = TRUE
                   /\ UNCHANGED processorThread_
              ELSE /\ processorThread_' = w
                   /\ UNCHANGED terminated
    /\ Return(c, [op |-> "start", caller |-> c, started |-> TRUE])
    /\ UNCHANGED <<tickQueue_, vwapData_, running_, ticksProcessed_, pushedTicks, joinCount>>

(* ---- stop ---- *)
\* if (running_.load())
stopLoad(c) ==
    /\ callerPc[c].pc = "idle"
    /\ IF running_
       THEN /\ callerPc' = [callerPc EXCEPT ![c] = [pc |-> "stop_store"]]
            /\ UNCHANGED tlast
       ELSE Return(c, [op |-> "stop", caller |-> c, out |-> "not running"])
    /\ UNCHANGED <<tickQueue_, vwapData_, processorThread_, running_, ticksProcessed_,
                   workerPc, pushedTicks, joinCount, terminated>>

\* running_.store(false)
stopStore(c) ==
    /\ callerPc[c].pc = "stop_store"
    /\ running_' = FALSE
    /\ callerPc' = [callerPc EXCEPT ![c] = [pc |-> "stop_joinable"]]
    /\ UNCHANGED <<tickQueue_, vwapData_, processorThread_, ticksProcessed_, workerPc,
                   pushedTicks, joinCount, terminated, tlast>>

\* if (processorThread_.joinable()), and the call of join() on that thread
stopJoinable(c) ==
    /\ callerPc[c].pc = "stop_joinable"
    /\ IF processorThread_ # nullptr
       THEN /\ callerPc' = [callerPc EXCEPT ![c] =
                                [pc |-> "stop_join", thread |-> processorThread_]]
            /\ joinCount' = [joinCount EXCEPT ![processorThread_] = @ + 1]
            /\ UNCHANGED tlast
       ELSE /\ Return(c, [op |-> "stop", caller |-> c, out |-> "not joinable"])
            /\ UNCHANGED joinCount
    /\ UNCHANGED <<tickQueue_, vwapData_, processorThread_, running_, ticksProcessed_,
                   workerPc, pushedTicks, terminated>>

\* join() returns once the thread has left processorLoop.  A second join() on
\* a thread another caller has joined is undefined: it returns or throws
stopJoin(c) ==
    /\ callerPc[c].pc = "stop_join"
    /\ workerPc[callerPc[c].thread] = "done"
    /\ IF processorThread_ = callerPc[c].thread
       THEN /\ processorThread_' = nullptr
            /\ Return(c, [op |-> "stop", caller |-> c, out |-> "joined"])
       ELSE /\ \E out \in {"joined", "throw"} :
                 Return(c, [op |-> "stop", caller |-> c, out |-> out])
            /\ UNCHANGED processorThread_
    /\ UNCHANGED <<tickQueue_, vwapData_, running_, ticksProcessed_, workerPc,
                   pushedTicks, joinCount, terminated>>

(* ---- addTick ---- *)
\* if (running_.load())
addTickLoad(c, tick) ==
    /\ callerPc[c].pc = "idle"
    /\ IF running_
       THEN /\ callerPc' = [callerPc EXCEPT ![c] = [pc |-> "add_push", tick |-> tick]]
            /\ UNCHANGED tlast
       ELSE Return(c, [op |-> "addTick", caller |-> c, pushed |-> FALSE])
    /\ UNCHANGED <<tickQueue_, vwapData_, processorThread_, running_, ticksProcessed_,
                   workerPc, pushedTicks, joinCount, terminated>>

\* tickQueue_.push(tick)
addTickPush(c) ==
    /\ callerPc[c].pc = "add_push"
    /\ tickQueue_' = Append(tickQueue_, callerPc[c].tick)
    /\ pushedTicks' = Append(pushedTicks, callerPc[c].tick)
    /\ Return(c, [op |-> "addTick", caller |-> c, pushed |-> TRUE])
    /\ UNCHANGED <<vwapData_, processorThread_, running_, ticksProcessed_, workerPc,
                   joinCount, terminated>>

(* ---- getVWAP and getProcessedCount ---- *)
getSymbolVWAP(c, symbol) ==
    /\ callerPc[c].pc = "idle"
    /\ tlast' = [op |-> "getVWAP", caller |-> c, symbol |-> symbol,
                 ret |-> IF symbol \in DOMAIN vwapData_ THEN vwapData_[symbol].vwap
                         ELSE Ratio(0, 1)]
    /\ UNCHANGED <<tickQueue_, vwapData_, processorThread_, running_, ticksProcessed_,
                   workerPc, callerPc, pushedTicks, joinCount, terminated>>

getProcessedCount(c) ==
    /\ callerPc[c].pc = "idle"
    /\ tlast' = [op |-> "getProcessedCount", caller |-> c, ret |-> ticksProcessed_]
    /\ UNCHANGED <<tickQueue_, vwapData_, processorThread_, running_, ticksProcessed_,
                   workerPc, callerPc, pushedTicks, joinCount, terminated>>

(* ---- processorLoop ---- *)
\* while (running_.load())
loopTest(w) ==
    /\ workerPc[w] = "loop"
    /\ workerPc' = [workerPc EXCEPT ![w] = IF running_ THEN "wait" ELSE "drain"]
    /\ UNCHANGED <<tickQueue_, vwapData_, processorThread_, running_, ticksProcessed_,
                   callerPc, pushedTicks, joinCount, terminated, tlast>>

\* waitAndPop with a timeout of 100 ms, and the body of the loop
loopWaitAndPop(w) ==
    /\ workerPc[w] = "wait"
    /\ IF tickQueue_ # <<>>
       THEN /\ tickQueue_' = Tail(tickQueue_)
            /\ HandleTick(Head(tickQueue_))
       ELSE UNCHANGED <<tickQueue_, vwapData_, ticksProcessed_>>
    /\ workerPc' = [workerPc EXCEPT ![w] = "loop"]
    /\ UNCHANGED <<processorThread_, running_, callerPc, pushedTicks, joinCount,
                   terminated, tlast>>

\* while (tickQueue_.tryPop(tick)), and the body of the loop
drainTryPop(w) ==
    /\ workerPc[w] = "drain"
    /\ IF tickQueue_ # <<>>
       THEN /\ tickQueue_' = Tail(tickQueue_)
            /\ HandleTick(Head(tickQueue_))
            /\ UNCHANGED workerPc
       ELSE /\ workerPc' = [workerPc EXCEPT ![w] = "done"]
            /\ UNCHANGED <<tickQueue_, vwapData_, ticksProcessed_>>
    /\ UNCHANGED <<processorThread_, running_, callerPc, pushedTicks, joinCount,
                   terminated, tlast>>

offTick == <<vars, qvars, dvars, cvars, wvars, mvars, svars>>

InitTick ==
    /\ bids = <<>>
    /\ asks = <<>>
    /\ orderLocation = <<>>
    /\ bestBid = 0
    /\ bestAsk = DBL_MAX
    /\ currentTimestamp = 0
    /\ trades = <<>>
    /\ last = [op |-> "none"]
    /\ QueueConstructed
    /\ impl = "header"
    /\ OthersConstructed

\* after std::terminate nothing runs
Alive == ~terminated

MayAdd ==
    Len(pushedTicks) + Cardinality({c \in Callers : callerPc[c].pc = "add_push"}) < MaxAdded

StartCompareExchange ==
    Alive /\ (\E c \in Callers : startCompareExchange(c)) /\ UNCHANGED offTick

StartThread == Alive /\ (\E c \in Callers : startThread(c)) /\ UNCHANGED offTick

StopLoad == Alive /\ (\E c \in Callers : stopLoad(c)) /\ UNCHANGED offTick

StopStore == Alive /\ (\E c \in Callers : stopStore(c)) /\ UNCHANGED offTick

StopJoinable == Alive /\ (\E c \in Callers : stopJoinable(c)) /\ UNCHANGED offTick

StopJoin == Alive /\ (\E c \in Callers : stopJoin(c)) /\ UNCHANGED offTick

AddTickLoad ==
    /\ Alive
    /\ MayAdd
    /\ \E c \in Callers, tick \in ProcessorTicks : addTickLoad(c, tick)
    /\ UNCHANGED offTick

AddTickPush == Alive /\ (\E c \in Callers : addTickPush(c)) /\ UNCHANGED offTick

GetSymbolVWAP ==
    Alive /\ (\E c \in Callers, symbol \in Symbols : getSymbolVWAP(c, symbol)) /\ UNCHANGED offTick

GetProcessedCount == Alive /\ (\E c \in Callers : getProcessedCount(c)) /\ UNCHANGED offTick

LoopTest == Alive /\ (\E w \in Workers : loopTest(w)) /\ UNCHANGED offTick

LoopWaitAndPop == Alive /\ (\E w \in Workers : loopWaitAndPop(w)) /\ UNCHANGED offTick

DrainTryPop == Alive /\ (\E w \in Workers : drainTryPop(w)) /\ UNCHANGED offTick

NextTick ==
    \/ StartCompareExchange \/ StartThread
    \/ StopLoad \/ StopStore \/ StopJoinable \/ StopJoin
    \/ AddTickLoad \/ AddTickPush
    \/ GetSymbolVWAP \/ GetProcessedCount
    \/ LoopTest \/ LoopWaitAndPop \/ DrainTryPop

SpecTick == InitTick /\ [][NextTick]_tvars

(***************************************************************************)
(* Properties of the order book                                            *)
(***************************************************************************)
Ladder(side) == IF side = BUY THEN bids ELSE asks
Opposite(side) == IF side = BUY THEN SELL ELSE BUY

NonEmptyLevels(lad) == {p \in DOMAIN lad : lad[p] # <<>>}
SetMax(S) == CHOOSE x \in S : \A y \in S : x >= y
SetMin(S) == CHOOSE x \in S : \A y \in S : x <= y

\* the orders resting in a ladder, as a set
OrdersOf(lad) == UNION {{lad[p][i] : i \in 1..Len(lad[p])} : p \in DOMAIN lad}

RECURSIVE SumQty(_)
SumQty(S) == IF S = {} THEN 0 ELSE LET o == CHOOSE x \in S : TRUE IN o.quantity + SumQty(S \ {o})

RECURSIVE SumTrades(_, _)
SumTrades(trs, n) == IF n = 0 THEN 0 ELSE trs[n].qty + SumTrades(trs, n - 1)

\* the step is a call of addOrder that passed the quantity check
AcceptedAdd == last'.op = "addOrder" /\ last'.accepted /\ currentTimestamp' = currentTimestamp + 1

\* C1: after every call the cached best bid is the highest price with a
\* non-empty bid queue (0 when there is none) and the cached best ask is the
\* lowest price with a non-empty ask queue (DBL_MAX when there is none).
BestPricesFresh ==
    /\ bestBid = (IF NonEmptyLevels(bids) = {} THEN 0 ELSE SetMax(NonEmptyLevels(bids)))
    /\ bestAsk = (IF NonEmptyLevels(asks) = {} THEN DBL_MAX ELSE SetMin(NonEmptyLevels(asks)))

BestPricesWitness ==
    /\ last.op = "cancelOrder" /\ last.ret
    /\ last.side = BUY /\ last.price > bestBid
    /\ DOMAIN bids # {} /\ DOMAIN asks # {}

\* C2: within one addOrder call the trades go through the opposite levels from
\* the best price outwards: when a trade happens at a price, every order that
\* rested at a better opposite price before the call has already been traded
\* down to zero by an earlier trade of the call, and the trade prices never
\* improve along the log.
Better(aggSide, p, q) == IF aggSide = BUY THEN p < q ELSE p > q

PricePriority ==
    [][AcceptedAdd =>
        LET opp == Ladder(Opposite(last'.side))
        IN  \A k \in 1..Len(trades') :
              /\ trades'[k].price \in DOMAIN opp
              /\ \A p \in DOMAIN opp :
                    Better(last'.side, p, trades'[k].price) =>
                        \A i \in 1..Len(opp[p]) :
                            \E j \in 1..(k - 1) :
                                /\ trades'[j].restTs = opp[p][i].timestamp
                                /\ trades'[j].restLeft = 0
              /\ k > 1 => ~Better(last'.side, trades'[k].price, trades'[k - 1].price)]_vars

PricePriorityWitness ==
    /\ Len(trades) >= 2
    /\ trades[1].price # trades[2].price

\* C3: of two orders resting on the same side at the same price, the one added
\* by the earlier call is traded down to zero and removed before the later one
\* gets any fill, and the later one's quantity never decreases while the
\* earlier one is still in the book.
TradedAt(trs, ts) == {k \in 1..Len(trs) : trs[k].restTs = ts}

TimePriority ==
    [][LET after == OrdersOf(bids') \cup OrdersOf(asks')
           stamps == {o.timestamp : o \in after}
       IN  \A side \in Sides : \A p \in DOMAIN Ladder(side) :
             \A i, j \in 1..Len(Ladder(side)[p]) :
                LET a == Ladder(side)[p][i]
                    b == Ladder(side)[p][j]
                IN  a.timestamp < b.timestamp =>
                      /\ AcceptedAdd =>
                            \A k \in TradedAt(trades', b.timestamp) :
                               /\ \E k1 \in 1..(k - 1) :
                                     trades'[k1].restTs = a.timestamp /\ trades'[k1].restLeft = 0
                               /\ a.timestamp \notin stamps
                      /\ (\E o \in after : o.timestamp = b.timestamp /\ o.quantity < b.quantity)
                            => a.timestamp \notin stamps]_vars

TimePriorityWitness ==
    /\ Len(trades) >= 2
    /\ trades[1].price = trades[2].price
    /\ trades[1].restTs < trades[2].restTs
    /\ trades[2].restLeft > 0

\* C4: every trade's quantity is min(aggressor's remaining, resting order's
\* remaining) just before the trade and at least 1; the incoming quantity is
\* the sum of the call's trades plus the quantity that rests; the opposite
\* side's total resting quantity drops by exactly the sum of the trades.
QuantityConservation ==
    [][AcceptedAdd =>
        LET opp == Ladder(Opposite(last'.side))
            own2 == IF last'.side = BUY THEN bids' ELSE asks'
            opp2 == IF last'.side = BUY THEN asks' ELSE bids'
            rested == {o \in OrdersOf(own2) : o.timestamp = currentTimestamp'}
            n == Len(trades')
        IN  /\ \A k \in 1..n :
                 \E o \in OrdersOf(opp) :
                    /\ o.timestamp = trades'[k].restTs
                    /\ trades'[k].qty = Min(last'.quantity - SumTrades(trades', k - 1), o.quantity)
                    /\ trades'[k].qty >= 1
            /\ last'.quantity = SumTrades(trades', n) + SumQty(rested)
            /\ SumQty(OrdersOf(opp2)) = SumQty(OrdersOf(opp)) - SumTrades(trades', n)]_vars

QuantityConservationWitness ==
    /\ last.op = "addOrder" /\ last.accepted
    /\ Len(trades) >= 1
    /\ \E o \in OrdersOf(Ladder(last.side)) : o.timestamp = currentTimestamp

\* C5: after every call every price key of either ladder has a non-empty queue.
NoEmptyLevels ==
    /\ \A p \in DOMAIN bids : bids[p] # <<>>
    /\ \A p \in DOMAIN asks : asks[p] # <<>>

NoEmptyLevelsWitness ==
    /\ last.op = "cancelOrder" /\ last.ret
    /\ last.price \notin DOMAIN Ladder(last.side)
    /\ DOMAIN Ladder(last.side) # {}

\* C6: an order id is a key of the index mapped to (side, price) exactly when
\* an order with that id sits in that side's queue at that price.
SitsAt(id, side, p) ==
    /\ p \in DOMAIN Ladder(side)
    /\ \E i \in 1..Len(Ladder(side)[p]) : Ladder(side)[p][i].orderID = id

IndexConsistent ==
    \A id \in OrderIDs, side \in Sides, p \in Prices :
        (id \in DOMAIN orderLocation /\ orderLocation[id] = [side |-> side, price |-> p])
            <=> SitsAt(id, side, p)

\* C7: addOrder with quantity <= 0 is rejected, and a rejected addOrder changes
\* neither ladder, nor the index, the cached best prices or the arrival
\* counter, and produces no trade: every call that gets past the check has a
\* quantity >= 1, every other call leaves the book as it was, and no order of
\* quantity <= 0 rests.
InvalidQuantityRejected ==
    [][last'.op = "addOrder" =>
          IF last'.accepted
          THEN last'.quantity >= 1
          ELSE /\ UNCHANGED book
               /\ trades' = <<>>
               /\ \A o \in OrdersOf(bids') \cup OrdersOf(asks') : o.quantity >= 1]_vars

InvalidQuantityWitness ==
    /\ last.op = "addOrder" /\ ~last.accepted
    /\ DOMAIN asks # {} /\ DOMAIN bids # {}

\* C8: addOrder with an id that is a key of the index produces no trade and
\* leaves the ladders, the index and the best prices unchanged.
DuplicateIdRejected ==
    [][\A side \in Sides, price \in Prices, quantity \in Quantities, orderID \in OrderIDs :
          (orderID \in DOMAIN orderLocation /\ addOrder(side, price, quantity, orderID)) =>
              /\ UNCHANGED <<bids, asks, orderLocation, bestBid, bestAsk>>
              /\ trades' = <<>>]_vars

\* C9: cancelOrder of an id absent from the index returns false and leaves the
\* ladders, the index and the cached best prices as they were.
CancelUnknownId ==
    [][(last'.op = "cancelOrder" /\ last'.orderID \notin DOMAIN orderLocation) =>
          /\ ~last'.ret
          /\ UNCHANGED book]_vars

CancelUnknownIdWitness ==
    /\ last.op = "cancelOrder" /\ ~last.ret
    /\ DOMAIN bids # {} /\ DOMAIN asks # {}

\* C10: for an id carried by a resting order, cancelOrder returns true, and a
\* cancelOrder of the same id right after a successful one returns false and
\* leaves the book as it was.
Resting(id) == \E o \in OrdersOf(bids) \cup OrdersOf(asks) : o.orderID = id

CancelTwice ==
    [][/\ (last'.op = "cancelOrder" /\ Resting(last'.orderID)) => last'.ret
       /\ (last.op = "cancelOrder" /\ last.ret
           /\ last'.op = "cancelOrder" /\ last'.orderID = last.orderID) =>
              (~last'.ret /\ UNCHANGED book)]_vars

\* C11: a successful cancelOrder(id) removes exactly one order, the one with
\* that id, from the queue the index names, erases the index entry and leaves
\* every other order where it was, in the same queue order; the level is
\* deleted exactly when that order was its last.
RemoveAt(q, i) == SubSeq(q, 1, i - 1) \o SubSeq(q, i + 1, Len(q))

QueueAt(lad, p) == IF p \in DOMAIN lad THEN lad[p] ELSE <<>>

CancelEffect ==
    [][(last'.op = "cancelOrder" /\ last'.ret) =>
        LET id == last'.orderID
            p == last'.price
            lad == Ladder(last'.side)
            lad2 == IF last'.side = BUY THEN bids' ELSE asks'
        IN  /\ IF last'.side = BUY THEN asks' = asks ELSE bids' = bids
            /\ p \in DOMAIN lad
            /\ \E i \in 1..Len(lad[p]) :
                  /\ lad[p][i].orderID = id
                  /\ QueueAt(lad2, p) = RemoveAt(lad[p], i)
            /\ p \in DOMAIN lad2 <=> Len(lad[p]) > 1
            /\ DOMAIN lad2 \ {p} = DOMAIN lad \ {p}
            /\ \A q \in DOMAIN lad \ {p} : lad2[q] = lad[q]
            /\ orderLocation' = MapErase(orderLocation, id)]_vars

\* C12: every trade is reported at the price of the level the resting order
\* sat on, so at most the limit of a BUY aggressor and at least the limit of a
\* SELL aggressor.
ExecutionPrice ==
    [][AcceptedAdd =>
        LET opp == Ladder(Opposite(last'.side))
        IN  \A k \in 1..Len(trades') :
              /\ \E p \in DOMAIN opp : \E i \in 1..Len(opp[p]) :
                    opp[p][i].timestamp = trades'[k].restTs /\ trades'[k].price = p
              /\ last'.side = BUY => trades'[k].price <= last'.price
              /\ last'.side = SELL => trades'[k].price >= last'.price]_vars

ExecutionPriceWitness ==
    /\ last.op = "addOrder" /\ last.accepted /\ last.side = BUY
    /\ \E k \in 1..Len(trades) : trades[k].price < last.price

\* C13: when the resting quantity at the opposite levels that cross the limit
\* is at least the incoming quantity, the incoming order is traded down to 0,
\* is put in neither ladder and gets no index entry.
Crosses(aggSide, levelPrice, price) ==
    IF aggSide = BUY THEN levelPrice <= price ELSE levelPrice >= price

CrossingQty(aggSide, price) ==
    SumQty({o \in OrdersOf(Ladder(Opposite(aggSide))) : Crosses(aggSide, o.price, price)})

FullFillOnEntry ==
    [][(AcceptedAdd /\ CrossingQty(last'.side, last'.price) >= last'.quantity) =>
          /\ SumTrades(trades', Len(trades')) = last'.quantity
          /\ trades'[Len(trades')].aggLeft = 0
          /\ \A o \in OrdersOf(bids') \cup OrdersOf(asks') : o.timestamp # currentTimestamp'
          /\ IF last'.side = BUY THEN bids' = bids ELSE asks' = asks
          /\ last'.orderID \in DOMAIN orderLocation' =>
                /\ last'.orderID \in DOMAIN orderLocation
                /\ orderLocation'[last'.orderID] = orderLocation[last'.orderID]]_vars

FullFillWitness ==
    /\ last.op = "addOrder" /\ last.accepted
    /\ Len(trades) >= 2
    /\ trades[Len(trades)].aggLeft = 0
    /\ \A o \in OrdersOf(bids) \cup OrdersOf(asks) : o.timestamp # currentTimestamp

\* C14: a remainder > 0 is appended at the back of the queue of the order's own
\* side at its limit price (the level is created if absent), with the
\* remaining quantity, behind the orders already there, and the index maps the
\* id to that side and price.
RestOfRemainder ==
    [][AcceptedAdd =>
        LET rem == last'.quantity - SumTrades(trades', Len(trades'))
            own == Ladder(last'.side)
            own2 == IF last'.side = BUY THEN bids' ELSE asks'
            o == Order(last'.orderID, last'.price, rem, currentTimestamp')
        IN  rem > 0 =>
              /\ own2 = MapPut(own, last'.price, Append(QueueAt(own, last'.price), o))
              /\ last'.orderID \in DOMAIN orderLocation'
              /\ orderLocation'[last'.orderID] = [side |-> last'.side, price |-> last'.price]]_vars

RestOfRemainderWitness ==
    /\ last.op = "addOrder" /\ last.accepted
    /\ last.price \in DOMAIN Ladder(last.side)
    /\ LET q == Ladder(last.side)[last.price]
       IN  Len(q) >= 2 /\ q[Len(q)].timestamp = currentTimestamp

\* C15: when the incoming quantity is smaller than the quantity of the order at
\* the front of the best opposite level and that level crosses, that order
\* stays at the front with its quantity reduced by the traded quantity, the
\* rest of the book and the index are as before, and both best prices are
\* unchanged.
PartialFillOfResting ==
    [][AcceptedAdd =>
        LET opp == Ladder(Opposite(last'.side))
            opp2 == IF last'.side = BUY THEN asks' ELSE bids'
            best == IF last'.side = BUY THEN AsksBegin(opp) ELSE BidsBegin(opp)
        IN  (/\ DOMAIN opp # {}
             /\ Crosses(last'.side, best, last'.price)
             /\ last'.quantity < opp[best][1].quantity) =>
              /\ Len(trades') = 1
              /\ trades'[1].qty = last'.quantity
              /\ trades'[1].restTs = opp[best][1].timestamp
              /\ opp2 = [opp EXCEPT ![best][1].quantity = @ - last'.quantity]
              /\ IF last'.side = BUY THEN bids' = bids ELSE asks' = asks
              /\ UNCHANGED <<orderLocation, bestBid, bestAsk>>]_vars

PartialFillWitness ==
    /\ last.op = "addOrder" /\ last.accepted /\ last.side = SELL
    /\ Len(trades) = 1
    /\ trades[1].restLeft > 0
    /\ bids # <<>> /\ asks # <<>>

\* C16: getBestBid, getBestAsk and printOrderBook leave the ladders, the index,
\* the cached best prices and the arrival counter unchanged; the getters
\* return the cached values.
ReadOnlyOperations ==
    [][/\ last'.op \in {"getBestBid", "getBestAsk", "printOrderBook"} => UNCHANGED book
       /\ last'.op = "getBestBid" => last'.ret = bestBid
       /\ last'.op = "getBestAsk" => last'.ret = bestAsk]_vars

ReadOnlyWitness ==
    /\ last.op = "printOrderBook"
    /\ DOMAIN last.bids # {} /\ DOMAIN last.asks # {}

\* C28: an incoming order trades with a resting opposite order priced exactly
\* at its limit whenever the orders at strictly better prices do not fill it,
\* and never trades beyond its limit (a BUY above it, a SELL below it).
BetterQty(aggSide, price) ==
    SumQty({o \in OrdersOf(Ladder(Opposite(aggSide))) : Better(aggSide, o.price, price)})

InclusiveCrossing ==
    [][AcceptedAdd =>
        LET opp == Ladder(Opposite(last'.side))
        IN  /\ (/\ last'.price \in NonEmptyLevels(opp)
                /\ last'.quantity > BetterQty(last'.side, last'.price)) =>
                  \E k \in 1..Len(trades') :
                      /\ trades'[k].price = last'.price
                      /\ trades'[k].restTs = opp[last'.price][1].timestamp
            /\ \A k \in 1..Len(trades') :
                  IF last'.side = BUY THEN ~(trades'[k].price > last'.price)
                  ELSE ~(trades'[k].price < last'.price)]_vars

InclusiveCrossingWitness ==
    /\ last.op = "addOrder" /\ last.accepted /\ last.side = SELL
    /\ Len(trades) = 2
    /\ trades[1].price > last.price
    /\ trades[2].price = last.price

\* C30: the book is never crossed: when both sides hold orders the best bid is
\* strictly below the best ask, and an order that rests leaves no opposite
\* order that crosses its limit.
NeverCrossed ==
    /\ []((NonEmptyLevels(bids) # {} /\ NonEmptyLevels(asks) # {}) =>
            /\ bestBid < bestAsk
            /\ SetMax(NonEmptyLevels(bids)) < SetMin(NonEmptyLevels(asks)))
    /\ [][AcceptedAdd =>
            LET own2 == IF last'.side = BUY THEN bids' ELSE asks'
                opp2 == IF last'.side = BUY THEN asks' ELSE bids'
            IN  (\E o \in OrdersOf(own2) : o.timestamp = currentTimestamp') =>
                    \A o \in OrdersOf(opp2) : ~Crosses(last'.side, o.price, last'.price)]_vars

NeverCrossedWitness ==
    /\ last.op = "addOrder" /\ last.accepted
    /\ trades # <<>>
    /\ NonEmptyLevels(bids) # {} /\ NonEmptyLevels(asks) # {}
    /\ \E o \in OrdersOf(Ladder(last.side)) : o.timestamp = currentTimestamp

\* C29: an incoming order larger than all the resting quantity that crosses
\* its limit trades every crossing order down to zero, once each; those orders
\* leave their queues and the index, their levels are deleted, the orders that
\* do not cross stay as they are, and the remainder rests on the order's own
\* side; if no opposite order is left the opposite best price is the default.
Sweep ==
    [][(AcceptedAdd /\ last'.quantity > CrossingQty(last'.side, last'.price)) =>
        LET side == last'.side
            opp == Ladder(Opposite(side))
            opp2 == IF side = BUY THEN asks' ELSE bids'
            own2 == IF side = BUY THEN bids' ELSE asks'
            crossing == {o \in OrdersOf(opp) : Crosses(side, o.price, last'.price)}
            rem == last'.quantity - CrossingQty(side, last'.price)
        IN  /\ Len(trades') = Cardinality(crossing)
            /\ \A o \in crossing :
                  /\ \E k \in 1..Len(trades') :
                        /\ trades'[k].restTs = o.timestamp
                        /\ trades'[k].qty = o.quantity
                        /\ trades'[k].restLeft = 0
                  /\ o.orderID \in DOMAIN orderLocation' => o.orderID = last'.orderID
            /\ DOMAIN opp2 = {p \in DOMAIN opp : ~Crosses(side, p, last'.price)}
            /\ \A p \in DOMAIN opp2 : opp2[p] = opp[p]
            /\ Order(last'.orderID, last'.price, rem, currentTimestamp') \in OrdersOf(own2)
            /\ orderLocation'[last'.orderID] = [side |-> side, price |-> last'.price]
            /\ DOMAIN opp2 = {} =>
                  IF side = BUY THEN bestAsk' = DBL_MAX ELSE bestBid' = 0]_vars

\* a SELL took two bid levels, no bid is left and its remainder rests
SweepWitness ==
    /\ last.op = "addOrder" /\ last.accepted /\ last.side = SELL
    /\ Len(trades) = 2
    /\ trades[1].price > trades[2].price
    /\ bids = <<>> /\ bestBid = 0
    /\ last.price \in DOMAIN asks
    /\ \E i \in 1..Len(asks[last.price]) :
          /\ asks[last.price][i].timestamp = currentTimestamp
          /\ asks[last.price][i].quantity = last.quantity - trades[1].qty - trades[2].qty

\* C31: every resting order has quantity >= 1 after every call; from one call
\* to the next the quantity of an order that stays in the book never grows, and
\* an order traded down to 0 is in no queue after the call.
AllResting == OrdersOf(bids) \cup OrdersOf(asks)

RestingQuantities ==
    /\ [](\A o \in AllResting : o.quantity >= 1)
    /\ [][LET after == OrdersOf(bids') \cup OrdersOf(asks')
          IN  /\ \A o \in AllResting : \A o2 \in after :
                    o2.timestamp = o.timestamp =>
                        /\ o2.quantity <= o.quantity
                        /\ o2.orderID = o.orderID /\ o2.price = o.price
              /\ AcceptedAdd =>
                    \A k \in 1..Len(trades') :
                        IF trades'[k].restLeft = 0
                        THEN \A o2 \in after : o2.timestamp # trades'[k].restTs
                        ELSE \E o2 \in after :
                                /\ o2.timestamp = trades'[k].restTs
                                /\ o2.quantity = trades'[k].restLeft]_vars

RestingQuantitiesWitness ==
    /\ last.op = "addOrder" /\ last.accepted
    /\ Len(trades) = 2
    /\ trades[1].restLeft = 0
    /\ trades[2].restLeft = 1
    /\ \E o \in AllResting : o.timestamp = trades[2].restTs /\ o.quantity = 1

\* C32: after every call each order id is carried by at most one resting order
\* over both ladders.
OnePlacePerId ==
    \A o \in AllResting : \A o2 \in AllResting :
        o.orderID = o2.orderID => o = o2

\* C33: matchOrders terminates: an addOrder call in progress always comes to
\* its end; each iteration of the inner loop brings the incoming quantity to 0
\* or removes one resting order, and each iteration of the outer loop brings
\* the incoming quantity to 0 or deletes one level.
RestingCount(lad) == Cardinality(OrdersOf(lad))

MatchingTerminates ==
    /\ (mcall.pc # "idle") ~> (mcall.pc = "idle")
    /\ [][/\ (mcall.pc = "inner" /\ mcall'.pc = "inner") =>
              \/ mcall'.quantity = 0
              \/ /\ RestingCount(OppositeLadder(mcall.side)') =
                        RestingCount(OppositeLadder(mcall.side)) - 1
                 /\ mcall'.quantity < mcall.quantity
          /\ (mcall.pc = "erase" /\ mcall'.pc = "outer") =>
              \/ mcall.quantity = 0
              \/ DOMAIN OppositeLadder(mcall.side)' =
                    DOMAIN OppositeLadder(mcall.side) \ {OppositeBegin(mcall.side)}
         ]_<<vars, svars>>

\* the inner loop has emptied a level with quantity left over, and the outer
\* loop is about to delete that level
MatchingTerminatesWitness ==
    /\ mcall.pc = "erase"
    /\ mcall.quantity > 0
    /\ OppositeLadder(mcall.side)[OppositeBegin(mcall.side)] = <<>>

(***************************************************************************)
(* Properties of ThreadSafeQueue                                           *)
(***************************************************************************)
\* C17: under every interleaving the queue never holds more than max_size_
\* items, and a push enqueues only from a state with fewer than max_size_ items
\* and no shutdown.
CapacityBound ==
    /\ [](Len(queue_) <= max_size_)
    /\ [][(qlast'.op = "push" /\ qlast'.out = "ok" /\ queue_' # queue_) =>
             (Len(queue_) < max_size_ /\ ~shutdown_)]_qvars

CapacityBoundWitness ==
    /\ Len(queue_) = max_size_
    /\ ~shutdown_
    /\ \E t \in Threads : pc[t] = "push_wait"
    /\ qlast.op = "push"
    /\ qlast.out = "ok"

\* C18: once shutdown() has been called no thread is left waiting on notFull_
\* or notEmpty_, and every thread that is inside push() or pop() leaves its
\* call.
ShutdownReleases ==
    /\ [](shutdown_ => \A t \in Threads : pc[t] \notin {"push_wait", "pop_wait"})
    /\ \A t \in Threads : (shutdown_ /\ pc[t] # "idle") ~> (pc[t] = "idle")

ShutdownReleasesWitness ==
    /\ shutdown_
    /\ qlast.op = "shutdown"
    /\ Cardinality({t \in Threads : pc[t] = "push_ready"}) >= 2

\* C19: with the header implementation, a pop() called after shutdown() throws.
PopAfterShutdownThrows ==
    [][\A t \in Threads :
          (impl = "header" /\ shutdown_ /\ pop(t)) => qlast'.out = "throw"]_qvars

\* C20: tryPush returns false and leaves the queue as it was exactly when the
\* queue holds max_size_ items or has been shut down; otherwise it appends the
\* item and returns true.
TryPushContract ==
    [][\A t \in Threads, item \in Items :
          tryPush(t, item) =>
              IF Len(queue_) = max_size_ \/ shutdown_
              THEN ~qlast'.ret /\ queue_' = queue_
              ELSE qlast'.ret /\ queue_' = Append(queue_, item)]_qvars

TryPushWitness ==
    /\ qlast.op = "tryPush" /\ ~qlast.ret
    /\ shutdown_
    /\ Len(queue_) < max_size_

\* C34, as stated: with a fair scheduler and no shutdown, a producer blocked
\* in push() completes its push once a consumer has removed an item, and a
\* consumer blocked in pop() returns once an item has been pushed.
Removed == (qlast.op = "pop" /\ qlast.out = "ok") \/ (qlast.op = "tryPop" /\ qlast.ret)

Pushed == (qlast.op = "push" /\ qlast.out = "ok") \/ (qlast.op = "tryPush" /\ qlast.ret)

BlockedProgress ==
    \A t \in Threads :
        /\ (pc[t] \in {"push_wait", "push_ready"} /\ Removed) ~> (pc[t] = "idle")
        /\ (pc[t] \in {"pop_wait", "pop_ready"} /\ Pushed) ~> (pc[t] = "idle")

\* C34, amended: with a fair scheduler and no shutdown no wake-up is lost:
\* while a producer waits in push() there are at least as many notified
\* producers as free slots, and while a consumer waits in pop() at least as
\* many notified consumers as items; and producers do not stay blocked in
\* push() while the queue has room, nor consumers in pop() while it has items:
\* the blocked calls complete or the queue is full, or empty, again.
Count(state) == Cardinality({t \in Threads : pc[t] = state})

NoLostWakeup ==
    /\ []((Count("push_wait") > 0) => (max_size_ - Len(queue_) <= Count("push_ready")))
    /\ []((Count("pop_wait") > 0) => (Len(queue_) <= Count("pop_ready")))
    /\ (Count("push_wait") + Count("push_ready") > 0 /\ Len(queue_) < max_size_)
          ~> (Count("push_wait") + Count("push_ready") = 0 \/ Len(queue_) = max_size_)
    /\ (Count("pop_wait") + Count("pop_ready") > 0 /\ queue_ # <<>>)
          ~> (Count("pop_wait") + Count("pop_ready") = 0 \/ queue_ = <<>>)

\* a consumer has removed an item from a full queue two producers were blocked
\* on: one of them was notified, the other still waits
NoLostWakeupWitness ==
    /\ Removed
    /\ Len(queue_) = max_size_ - 1
    /\ Count("push_ready") = 1
    /\ Count("push_wait") = 1

\* C35: the two implementations are equivalent: in every state a sequence of
\* calls can lead to, pop() throws in the one exactly when it throws in the
\* other, and tryPop() returns false in the one exactly when it does in the
\* other.
ImplementationsEquivalent ==
    /\ PopThrowsIn("header", queue_, shutdown_) = PopThrowsIn("inline", queue_, shutdown_)
    /\ TryPopRefusesIn("header", queue_, shutdown_) = TryPopRefusesIn("inline", queue_, shutdown_)

\* C21: the items the producers' calls reported as pushed are, in the order
\* they were enqueued, the items the consumers' calls returned followed by the
\* items still in the queue: no item is lost, duplicated or overtaken, and
\* when the queue is drained the number consumed equals the number produced.
Delivery ==
    /\ produced = consumed \o queue_
    /\ queue_ = <<>> => Len(consumed) = Len(produced)

DeliveryWitness ==
    /\ Len(consumed) = 2
    /\ consumed[1] # consumed[2]
    /\ Len(produced) = MaxItems
    /\ queue_ # <<>>
    /\ qlast.op = "pop"

(***************************************************************************)
(* Properties of LRUCache                                                  *)
(***************************************************************************)
\* the position of a key in the order of last accesses (1 is the most recent)
Position(log, k) == CHOOSE i \in 1..Len(log) : log[i] = k

\* the key present whose most recent access is the oldest
LeastRecentlyUsed ==
    CHOOSE k \in DOMAIN map_ :
        \A j \in DOMAIN map_ : Position(accessed, k) >= Position(accessed, j)

\* C22: size() never exceeds capacity_; a put of a new key into a full cache
\* evicts exactly one entry and stores the new key, and a cache of capacity 0
\* never stores anything.
LRUCapacity ==
    /\ [](size <= capacity_)
    /\ [][clast'.op = "put" =>
            /\ capacity_ = 0 => map_' = <<>>
            /\ (capacity_ > 0 /\ clast'.key \notin DOMAIN map_ /\ size = capacity_) =>
                  /\ Cardinality(DOMAIN map_ \ DOMAIN map_') = 1
                  /\ DOMAIN map_' \ DOMAIN map_ = {clast'.key}
                  /\ Cardinality(DOMAIN map_') = capacity_]_cvars

LRUCapacityWitness ==
    /\ clast.op = "put" /\ ~clast.found
    /\ capacity_ = MaxCapacity
    /\ size = capacity_
    /\ Len(accessed) = MaxCapacity + 1
    /\ accessed[1] = clast.key
    /\ accessed[Len(accessed)] \notin DOMAIN map_

\* C23: when a put of a new key exceeds the capacity, the entry evicted is the
\* one, of those present before the put, whose last access is the oldest; the
\* new key stays.
EvictionOrder ==
    [][(clast'.op = "put" /\ capacity_ > 0 /\ clast'.key \notin DOMAIN map_
           /\ size = capacity_) =>
          DOMAIN map_' = (DOMAIN map_ \ {LeastRecentlyUsed}) \cup {clast'.key}]_cvars

\* put 1, put 2, get 1, put 3 with capacity 2 evicts key 2
EvictionOrderWitness ==
    /\ capacity_ = 2
    /\ clast.op = "put" /\ clast.key = 3 /\ ~clast.found
    /\ accessed = <<3, 1, 2>>
    /\ DOMAIN map_ = {1, 3}
    /\ nodes[map_[1]].prev = map_[3]

\* C24: put(k, v) on a key that is present stores v for k (the next get(k)
\* returns the value stored), keeps the keys and the size, and makes k the head
\* of the list; get on an absent key returns nullopt and changes nothing.
UpdateInPlace ==
    [][/\ (clast'.op = "put" /\ clast'.key \in DOMAIN map_) =>
            /\ map_' = map_
            /\ DOMAIN nodes' = DOMAIN nodes
            /\ nodes'[map_'[clast'.key]].value = clast'.value
            /\ head_' = map_'[clast'.key]
            /\ \A k \in DOMAIN map_ \ {clast'.key} :
                  nodes'[map_'[k]].value = nodes[map_[k]].value
       /\ (clast'.op = "get" /\ clast'.key \in DOMAIN map_) =>
            clast'.ret = <<nodes[map_[clast'.key]].value>>
       /\ (clast'.op = "get" /\ clast'.key \notin DOMAIN map_) =>
            /\ clast'.ret = <<>>
            /\ UNCHANGED <<nodes, head_, tail_, map_, capacity_>>]_cvars

UpdateInPlaceWitness ==
    /\ clast.op = "put" /\ clast.found
    /\ size = 2
    /\ nodes[head_].key = clast.key
    /\ nodes[head_].value = clast.value
    /\ nodes[tail_].value # clast.value

\* the nodes reached from n along next, at most fuel of them
RECURSIVE Walk(_, _)
Walk(n, fuel) ==
    IF n = nullptr \/ fuel = 0 THEN <<>>
    ELSE IF n \notin DOMAIN nodes THEN <<n>>
    ELSE <<n>> \o Walk(nodes[n].next, fuel - 1)

\* C37: after every public call the keys in map_ are the keys of the nodes
\* reachable from head_, each key is in exactly one node, map_[k] points to the
\* node that holds k, head_ and tail_ are both null exactly when the cache is
\* empty, and tail_ is the last node reached from head_.
StructurallyConsistent ==
    LET w == Walk(head_, Cardinality(DOMAIN nodes) + 1) IN
    /\ \A i \in 1..Len(w) : w[i] \in DOMAIN nodes
    /\ {nodes[w[i]].key : i \in 1..Len(w)} = DOMAIN map_
    /\ \A i \in 1..Len(w) : \A j \in 1..Len(w) : nodes[w[i]].key = nodes[w[j]].key => i = j
    /\ \A k \in DOMAIN map_ : map_[k] \in DOMAIN nodes /\ nodes[map_[k]].key = k
    /\ (head_ = nullptr) <=> (map_ = <<>>)
    /\ (tail_ = nullptr) <=> (map_ = <<>>)
    /\ w # <<>> => tail_ = w[Len(w)]

\* after an eviction, a get has left its node at the front of a two-node list
StructurallyConsistentWitness ==
    /\ clast.op = "get"
    /\ size = 2
    /\ head_ # tail_
    /\ nodes[head_].key = clast.key
    /\ accessed[1] = clast.key
    /\ Len(accessed) = 3

(***************************************************************************)
(* Properties of VWAPCalculator                                            *)
(***************************************************************************)
\* the last n elements of a sequence
LastN(seq, n) == SubSeq(seq, Len(seq) - n + 1, Len(seq))

RECURSIVE SumVolume(_)
SumVolume(ts) == IF ts = <<>> THEN 0 ELSE Head(ts).volume + SumVolume(Tail(ts))

RECURSIVE SumPriceVolume(_)
SumPriceVolume(ts) ==
    IF ts = <<>> THEN 0 ELSE Head(ts).price * Head(ts).volume + SumPriceVolume(Tail(ts))

\* C25: the window never holds more than windowSize ticks and is always the
\* last min(n, windowSize) ticks accepted, in arrival order; an addTick on a
\* full window drops exactly the oldest tick and appends the new one.
WindowBound ==
    /\ [](/\ Len(ticks) <= windowSize
          /\ ticks = LastN(arrived, Min(Len(arrived), windowSize)))
    /\ [][(wlast'.op = "addTick" /\ wlast'.out = "ok" /\ Len(ticks) = windowSize) =>
            ticks' = Append(Tail(ticks), Tick(wlast'.price, wlast'.volume))]_wvars

WindowBoundWitness ==
    /\ wlast.op = "addTick" /\ wlast.out = "ok"
    /\ Len(ticks) = windowSize
    /\ Len(arrived) = windowSize + 1
    /\ arrived[1] # ticks[1]

\* C26: totalVolume is the sum of the volumes in the window, totalPriceVolume
\* the sum of price * volume over it, and getVWAP returns their quotient for a
\* non-empty window and 0 for an empty one.
RunningSums ==
    /\ [](/\ totalVolume = SumVolume(ticks)
          /\ totalPriceVolume = SumPriceVolume(ticks))
    /\ [][wlast'.op = "getVWAP" =>
            wlast'.ret = IF ticks = <<>> THEN Ratio(0, 1)
                         ELSE Ratio(SumPriceVolume(ticks), SumVolume(ticks))]_wvars

RunningSumsWitness ==
    /\ wlast.op = "getVWAP"
    /\ Len(arrived) > Len(ticks)
    /\ Len(ticks) = 2
    /\ ticks[1].price # ticks[2].price
    /\ ticks[1].volume # ticks[2].volume
    /\ wlast.ret.den = ticks[1].volume + ticks[2].volume

\* C36: addTick with volume <= 0 throws and leaves the window and both running
\* sums as they were, also when the window is full: no tick is evicted.
InvalidVolume ==
    [][\A price \in TickPrices, volume \in Volumes :
          (volume <= 0 /\ addTick(price, volume)) =>
              /\ wlast'.out = "throw"
              /\ UNCHANGED <<ticks, totalPriceVolume, totalVolume>>]_wvars

InvalidVolumeWitness ==
    /\ wlast.op = "addTick"
    /\ wlast.out = "throw"
    /\ WindowFull(getTickCountOf(ticks))
    /\ totalVolume > 0

(***************************************************************************)
(* Properties of MarketDataProcessor                                       *)
(***************************************************************************)
\* C27: after processTick(t) every tick retained for t.symbol has a timestamp
\* at most TIME_WINDOW_MS older than t.timestamp.
TimeWindow ==
    [][mlast'.op = "processTick" =>
          LET t == mlast'.tick
              retained == symbolMap'[t.symbol]
          IN  \A i \in 1..Len(retained) :
                 t.timestamp - retained[i].timestamp <= TIME_WINDOW_MS]_mvars

(***************************************************************************)
(* Properties of TickProcessor                                             *)
(***************************************************************************)
ValidCount(ts) == Len(SelectSeq(ts, validateTick))

\* a processor thread has run and was joined, no thread of a later start()
\* exists, and no caller is inside a call
Stopped ==
    /\ ~terminated
    /\ ~running_
    /\ processorThread_ = nullptr
    /\ \E w \in Workers : workerPc[w] = "done"
    /\ \A w \in Workers : ~Running(w)
    /\ \A c \in Callers : callerPc[c].pc = "idle"

\* C38: under every interleaving of addTick with stop(), once stop() has
\* returned the queue is empty and getProcessedCount equals the number of
\* pushed ticks that pass validateTick.
DrainOnStop ==
    Stopped => (tickQueue_ = <<>> /\ ticksProcessed_ = ValidCount(pushedTicks))

\* C39: under every interleaving of start() and stop() at most one processor
\* thread exists at a time, and a processor thread is joined at most once.
SingleWorker ==
    /\ Cardinality({w \in Workers : Running(w)}) <= 1
    /\ \A w \in Workers : joinCount[w] <= 1

====
